---- MODULE Spec2Model ----
(***************************************************************************)
(* Chat-support backend: ChatService (services/chat.service.ts) on top of  *)
(* the SQLite store (db/operations) and an injected ILLMService.           *)
(*                                                                         *)
(* Every sendMessage invocation is an async function: it runs atomically   *)
(* from one `await` to the next, and invocations interleave at the awaits. *)
(* getHistory contains no await and runs atomically.                       *)
(***************************************************************************)
EXTENDS Integers, Sequences, FiniteSets, TLC

(* ------------------------------ bounds -------------------------------- *)
\* number of sendMessage invocations that get as far as storing a message
MaxCalls == 2
\* Date.now() ranges over 0..MaxClock
MaxClock == 1
\* getHistory limits range over 0..MaxLimit (and "no limit")
MaxLimit == 1

\* rows (conversations and messages) that a client of the store inserts
MaxStoreRows == 4
\* turns in a history handed to LLMService.generateReply
MaxTurns == 11

(* ------------------------- program constants -------------------------- *)
\* chat.service.ts:170  request.message.length > 10000
MaxMessageLength == 10000
\* part_005:39  DEFAULT_CONFIG.maxHistoryMessages, and the default of
\* formatConversationHistory's maxMessages (llm/index.ts:163)
DefaultMaxHistoryMessages == 10

(* ------------------------------ strings ------------------------------- *)
\* An identifier string is the tuple of its characters.
HexDigits ==
  {"0","1","2","3","4","5","6","7","8","9",
   "a","b","c","d","e","f","A","B","C","D","E","F"}

HexChar(n) ==
  <<"0","1","2","3","4","5","6","7","8","9","a","b","c","d","e","f">>[n + 1]

\* A message text is run-length encoded: a tuple of runs [ch, n], n >= 1,
\* adjacent runs having different characters.
Run(c, k) == [ch |-> c, n |-> k]

RECURSIVE TextLength(_)
\* String.prototype.length
TextLength(t) == IF t = <<>> THEN 0 ELSE Head(t).n + TextLength(Tail(t))

IsWhitespace(c) == c \in {" ", "\t", "\n"}

RECURSIVE TrimStart(_)
TrimStart(t) ==
  IF t = <<>> THEN <<>>
  ELSE IF IsWhitespace(Head(t).ch) THEN TrimStart(Tail(t)) ELSE t

RECURSIVE TrimEnd(_)
TrimEnd(t) ==
  IF t = <<>> THEN <<>>
  ELSE IF IsWhitespace(t[Len(t)].ch) THEN TrimEnd(SubSeq(t, 1, Len(t) - 1))
       ELSE t

\* String.prototype.trim
Trim(t) == TrimEnd(TrimStart(t))

\* A JSON number where a text is expected (a request body is not type-checked
\* at run time): a tuple that is no text.
JsonNumber(k) == <<[number |-> k]>>

\* typeof v === 'string'
IsString(v) == \A k \in 1..Len(v) : DOMAIN v[k] = {"ch", "n"}

\* !v for a text or a number: the empty string and 0 are falsy
Falsy(v) == v = <<>> \/ v = JsonNumber(0)

\* An optional value (`x?: T`): <<>> when undefined, <<v>> when present.
Undefined == <<>>
Some(v) == <<v>>

\* JavaScript truthiness of an optional string / optional number
TruthyString(s) == s # Undefined /\ s[1] # <<>>
TruthyNumber(k) == k # Undefined /\ k[1] # 0

Min(a, b) == IF a < b THEN a ELSE b
Max(a, b) == IF a > b THEN a ELSE b

\* Array.prototype.slice(begin, end) with JavaScript's negative indices
JsSlice(s, begin, end) ==
  LET from == IF begin < 0 THEN Max(Len(s) + begin, 0) ELSE Min(begin, Len(s))
      to   == IF end < 0 THEN Max(Len(s) + end, 0) ELSE Min(end, Len(s))
  IN  SubSeq(s, from + 1, to)

\* Array.prototype.slice(begin)
JsSliceFrom(s, begin) == JsSlice(s, begin, Len(s))

(* ------------------------------ the store ----------------------------- *)
\* a generator of version-1 identifiers
uuidv1(k) ==
  <<"0","0","0","0","0","0","0","0","-","0","0","0","0","-",
    "1","0","0","0","-","8","0","0","0","-",
    "0","0","0","0","0","0","0","0","0","0">>
  \o <<HexChar(k \div 16), HexChar(k % 16)>>

\* uuid.v4(): the k-th identifier drawn from the generator
uuidv4(k) ==
  <<"0","0","0","0","0","0","0","0","-","0","0","0","0","-",
    "4","0","0","0","-","8","0","0","0","-",
    "0","0","0","0","0","0","0","0","0","0">>
  \o <<HexChar(k \div 16), HexChar(k % 16)>>

\* new Date(ms).toISOString()
toISOString(ms) == [iso |-> ms]

\* INSERT INTO conversations (id, created_at)
InsertConversation(convs, id, now) ==
  Append(convs, [id |-> id, created_at |-> now])

\* an INSERT that stores nothing
InsertNothing(msgs, id, conversationId, sender, text, now) == msgs

\* an INSERT that writes 'assistant' whatever the sender
InsertAsAssistant(msgs, id, conversationId, sender, text, now) ==
  Append(msgs, [id |-> id, conversation_id |-> conversationId,
                sender |-> "assistant", text |-> text, created_at |-> now])

\* an INSERT that puts the new row before the stored ones
InsertFirst(msgs, id, conversationId, sender, text, now) ==
  <<[id |-> id, conversation_id |-> conversationId,
     sender |-> sender, text |-> text, created_at |-> now]>> \o msgs

\* a write that replaces the newest row instead of adding one
InsertOverwriting(msgs, id, conversationId, sender, text, now) ==
  IF msgs = <<>> \/ msgs[Len(msgs)].sender = "assistant"
    THEN Append(msgs, [id |-> id, conversation_id |-> conversationId,
                       sender |-> sender, text |-> text, created_at |-> now])
    ELSE [msgs EXCEPT ![Len(msgs)] =
            [id |-> id, conversation_id |-> conversationId,
             sender |-> sender, text |-> text, created_at |-> now]]

\* an INSERT that puts the new row before the row stored last
InsertBeforeLast(msgs, id, conversationId, sender, text, now) ==
  IF msgs = <<>>
    THEN <<[id |-> id, conversation_id |-> conversationId,
            sender |-> sender, text |-> text, created_at |-> now]>>
    ELSE SubSeq(msgs, 1, Len(msgs) - 1)
           \o <<[id |-> id, conversation_id |-> conversationId,
                 sender |-> sender, text |-> text, created_at |-> now],
                msgs[Len(msgs)]>>

\* INSERT INTO messages (id, conversation_id, sender, text, created_at)
InsertMessage(msgs, id, conversationId, sender, text, now) ==
  Append(msgs, [id |-> id, conversation_id |-> conversationId,
                sender |-> sender, text |-> text, created_at |-> now])

\* the SELECT without its WHERE clause
AnyConversation(convs, conversationId) == convs

\* SELECT ... FROM conversations WHERE id = ? : the matching rows (0 or 1)
getConversation(convs, conversationId) ==
  SelectSeq(convs, LAMBDA r : r.id = conversationId)

RECURSIVE OrderByCreatedAt(_, _)
\* ORDER BY created_at ASC over the rows with indices S: every order of the
\* rows that is non-decreasing in created_at (SQL leaves the order of rows
\* with equal keys unspecified).
OrderByCreatedAt(msgs, S) ==
  IF S = {} THEN {<<>>}
  ELSE LET first == {k \in S : \A j \in S : msgs[k].created_at <= msgs[j].created_at}
       IN  UNION {{<<msgs[k]>> \o rest : rest \in OrderByCreatedAt(msgs, S \ {k})}
                  : k \in first}

\* a SELECT over messages without its WHERE conversation_id = ? clause
SelectAllMessages(msgs, conversationId) ==
  LET rows == OrderByCreatedAt(msgs, 1..Len(msgs))
  IN  {[k \in 1..Len(r) |->
          [id |-> r[k].id, conversation_id |-> r[k].conversation_id,
           sender |-> r[k].sender, text |-> r[k].text,
           created_at |-> toISOString(r[k].created_at)]] : r \in rows}

\* getConversationMessages: the possible results for an existing conversation
getConversationMessages(msgs, conversationId) ==
  LET rows == OrderByCreatedAt(msgs,
                {k \in 1..Len(msgs) : msgs[k].conversation_id = conversationId})
  IN  {[k \in 1..Len(r) |->
          [id |-> r[k].id, conversation_id |-> r[k].conversation_id,
           sender |-> r[k].sender, text |-> r[k].text,
           created_at |-> toISOString(r[k].created_at)]] : r \in rows}

RECURSIVE OrderByCreatedAtDesc(_, _)
\* ORDER BY created_at DESC over the rows with indices S: every order of the
\* rows that is non-increasing in created_at
OrderByCreatedAtDesc(convs, S) ==
  IF S = {} THEN {<<>>}
  ELSE LET first == {k \in S : \A j \in S : convs[k].created_at >= convs[j].created_at}
       IN  UNION {{<<convs[k]>> \o rest : rest \in OrderByCreatedAtDesc(convs, S \ {k})}
                  : k \in first}

\* getAllConversations: the possible results
getAllConversations(convs) ==
  {[k \in 1..Len(r) |->
      [id |-> r[k].id, created_at |-> toISOString(r[k].created_at)]]
   : r \in OrderByCreatedAtDesc(convs, 1..Len(convs))}

\* a DELETE that removes no row
DeleteNoConversation(convs, conversationId) == convs

\* DELETE FROM conversations WHERE id = ?
DeleteConversations(convs, conversationId) ==
  SelectSeq(convs, LAMBDA r : r.id # conversationId)

\* a foreign key without ON DELETE CASCADE that is not enforced
KeepMessages(msgs, conversationId) == msgs

\* FOREIGN KEY (conversation_id) REFERENCES conversations(id) ON DELETE
\* CASCADE: the rows that stay when the conversation is deleted
CascadeDelete(msgs, conversationId) ==
  SelectSeq(msgs, LAMBDA r : r.conversation_id # conversationId)

(* ----------------------------- the service ---------------------------- *)
\* An error text (Error.message) is the tuple of its fragments, each a string.
\* new ChatError(type, message, userMessage, statusCode, originalError?)
ChatError(type, message, userMessage, statusCode, originalError) ==
  [class |-> "ChatError", name |-> "ChatError", type |-> type,
   message |-> message, userMessage |-> userMessage,
   statusCode |-> statusCode, originalError |-> originalError]

\* new LLMError(type, message, userMessage, originalError?, statusCode?)
LLMError(type, message, userMessage, originalError, statusCode) ==
  [class |-> "LLMError", name |-> "LLMError", type |-> type,
   message |-> message, userMessage |-> userMessage,
   originalError |-> originalError, statusCode |-> statusCode]

\* an Error with a name of its own (error.name)
NamedError(name, message) ==
  [class |-> "Error", name |-> name, message |-> message]

\* new Error(message)
PlainError(message) == NamedError("Error", message)

\* `${error}`: Error.prototype.toString
ErrorToString(error) == <<error.name, ": ">> \o error.message

\* error instanceof Error ? error : undefined
AsOriginalError(error) == Some(error)

\* saveMessage / getConversationMessages:
\* new Error(`Conversation not found: ${conversationId}`)
ConversationMissing(conversationId) ==
  PlainError(<<"Conversation not found: ">> \o conversationId)

\* ChatService.isValidUUID: the v4 pattern, case-insensitive
UuidPattern(s) ==
  /\ Len(s) = 36
  /\ \A k \in 1..36 :
       IF k \in {9, 14, 19, 24} THEN s[k] = "-"
       ELSE IF k = 15 THEN s[k] = "4"
       ELSE IF k = 20 THEN s[k] \in {"8", "9", "a", "b", "A", "B"}
       ELSE s[k] \in HexDigits

\* regex.test(undefined) tests the string "undefined"
isValidUUID(uuid) == uuid # Undefined /\ UuidPattern(uuid[1])

\* !request.message alone, without the trimmed comparison
MessageFalsy(message) == Falsy(message)

\* request.message.trim(), called on a value that has no such method
TrimIsNotAFunction ==
  NamedError("TypeError", <<"request.message.trim is not a function">>)

\* a check that finds no message missing
NeverMissing(message) == FALSE

\* !request.message || request.message.trim() === '', for a text or a falsy
\* value
MessageMissing(message) == Falsy(message) \/ Trim(message) = <<>>

\* request.message.length > 10000
MessageTooLong(message) == TextLength(message) > MaxMessageLength

\* request.sessionId && !this.isValidUUID(request.sessionId)
SessionIdRejected(sessionId) == TruthyString(sessionId) /\ ~isValidUUID(sessionId)

\* validateSendMessageRequest: the thrown error, if any
validateSendMessageRequest(message, sessionId) ==
  IF ~Falsy(message) /\ ~IsString(message)
    THEN Some(TrimIsNotAFunction)
  ELSE IF MessageMissing(message)
    THEN Some(ChatError("INVALID_INPUT", <<"Message is required">>,
           "Please provide a message.", 400, Undefined))
  ELSE IF MessageTooLong(message)
    THEN Some(ChatError("INVALID_INPUT", <<"Message too long">>,
           "Message is too long. Please keep it under 10,000 characters.", 400,
           Undefined))
  ELSE IF SessionIdRejected(sessionId)
    THEN Some(ChatError("INVALID_INPUT", <<"Invalid session ID format">>,
           "Invalid session ID. Please start a new conversation.", 400,
           Undefined))
  ELSE Undefined

\* errorMessage.toLowerCase().includes('conversation not found'); an error
\* message is the tuple of its fragments
MentionsNotFound(message) ==
  \E k \in 1..Len(message) :
     message[k] \in {"Conversation not found: ", "conversation not found"}

\* ChatService.handleError
handleError(error) ==
  IF error.class = "ChatError" THEN error
  ELSE IF error.class = "LLMError"
    THEN ChatError("AI_SERVICE_ERROR", <<"LLM error: ">> \o error.message,
                   error.userMessage,
                   IF TruthyNumber(error.statusCode) THEN error.statusCode[1] ELSE 500,
                   Some(error))
  ELSE IF MentionsNotFound(error.message)
    THEN ChatError("CONVERSATION_NOT_FOUND", error.message,
                   "Conversation not found.", 404, AsOriginalError(error))
  ELSE ChatError("UNKNOWN_ERROR", <<"Unexpected error: ">> \o error.message,
                 "An unexpected error occurred. Please try again.", 500,
                 AsOriginalError(error))

\* generateAIReply without its catch block: the error propagates as thrown
Propagated(error) == error

\* the catch block of generateAIReply without its LLMError branch
generateAIReplyUntyped(error) ==
  ChatError("AI_SERVICE_ERROR",
            <<"Failed to generate AI reply: ">> \o ErrorToString(error),
            "Unable to generate a response. Please try again.", 500,
            AsOriginalError(error))

\* the catch block of ChatService.generateAIReply
generateAIReplyError(error) ==
  IF error.class = "LLMError"
    THEN ChatError("AI_SERVICE_ERROR", <<"LLM error: ">> \o error.message,
                   error.userMessage,
                   IF TruthyNumber(error.statusCode) THEN error.statusCode[1] ELSE 500,
                   Some(error))
    ELSE ChatError("AI_SERVICE_ERROR",
                   <<"Failed to generate AI reply: ">> \o ErrorToString(error),
                   "Unable to generate a response. Please try again.", 500,
                   AsOriginalError(error))

\* getConversationHistory: messages.slice(0, -1) mapped to {role, content}
HistoryForLLM(rows) ==
  LET historyMessages == JsSlice(rows, 0, -1)
  IN  [k \in 1..Len(historyMessages) |->
         [role |-> IF historyMessages[k].sender = "user" THEN "user" ELSE "assistant",
          content |-> historyMessages[k].text]]

\* the identifiers of the rows that HistoryForLLM keeps
HistoryIds(rows) ==
  LET historyMessages == JsSlice(rows, 0, -1)
  IN  [k \in 1..Len(historyMessages) |-> historyMessages[k].id]

\* getHistory: request.limit ? messages.slice(-request.limit) : messages
LimitMessages(rows, limit) ==
  IF TruthyNumber(limit) THEN JsSliceFrom(rows, 0 - limit[1]) ELSE rows

\* getHistory: rows mapped to HistoryMessage
ToHistoryMessages(rows) ==
  [k \in 1..Len(rows) |->
     [id |-> rows[k].id, sender |-> rows[k].sender, text |-> rows[k].text,
      timestamp |-> rows[k].created_at]]

(* --------------------------- the LLM service -------------------------- *)
\* The patterns of LLMService.handleError that occur in a fragment of an
\* error text after toLowerCase(): String.prototype.includes.
PatternsIn(fragment) ==
  CASE fragment = "Invalid API key provided" -> {"api key", "invalid"}
    [] fragment = "401 Unauthorized" -> {"401", "unauthorized"}
    [] fragment = "Rate limit exceeded" -> {"rate limit"}
    [] fragment = "Quota exceeded" -> {"quota"}
    [] fragment = "Request timed out" -> {"timed out"}
    [] fragment = "This operation was aborted" -> {"aborted"}
    [] fragment = "Network connection failed" -> {"network"}
    [] fragment = "Content blocked by safety filters" -> {"blocked", "safety"}
    [] fragment = "Invalid request format" -> {"invalid"}
    [] fragment = "429 Too Many Requests" -> {"429", "too many requests"}
    [] fragment = "Network timeout" -> {"network", "timeout"}
    [] fragment = "Harmful content: HTTP 400" -> {"harm", "400"}
    [] OTHER -> {}

\* errorMessage.includes(pattern) for one of the patterns
Includes(message, patterns) ==
  \E k \in 1..Len(message) : PatternsIn(message[k]) \cap patterns # {}

\* error instanceof Error ? error : new Error(String(error)); a thrown value
\* that is no Error is [class |-> "value", message |-> String(value)]
AsError(error) ==
  IF error.class = "value" THEN PlainError(error.message) ELSE error

\* a handleError that knows no pattern
LLMServiceAllUnknown(error) ==
  IF error.class = "LLMError" THEN error
  ELSE LLMError("UNKNOWN", <<"Unknown error: ">> \o AsError(error).message,
         "I'm having technical difficulties. Please try again or contact support if the problem persists.",
         Some(AsError(error)), Some(500))

\* a handleError that shows the caught text to the user
LLMServiceEchoError(error) ==
  IF error.class = "LLMError" THEN error
  ELSE LLMError("UNKNOWN", <<"Unknown error: ">> \o error.message,
         error.message[1], Some(error), Some(500))

\* LLMService.handleError
LLMServiceHandleError(error) ==
  IF error.class = "LLMError" THEN error
  ELSE IF Includes(AsError(error).message,
            {"api key", "invalid_api_key", "authentication", "unauthorized", "401"})
    THEN LLMError("INVALID_API_KEY", <<"Invalid or expired API key">>,
           "AI service is unavailable. Please contact support.", Some(AsError(error)), Some(401))
  ELSE IF Includes(AsError(error).message,
            {"rate limit", "quota", "429", "too many requests"})
    THEN LLMError("RATE_LIMIT", <<"Rate limit exceeded">>,
           "Our AI service is currently busy. Please try again in a moment.",
           Some(AsError(error)), Some(429))
  ELSE IF \/ Includes(AsError(error).message, {"timeout", "timed out", "aborted"})
          \/ AsError(error).name = "AbortError"
    THEN LLMError("TIMEOUT", <<"Request timed out">>,
           "The AI is taking too long to respond. Please try asking again.",
           Some(AsError(error)), Some(408))
  ELSE IF Includes(AsError(error).message,
            {"network", "econnrefused", "enotfound", "fetch failed"})
    THEN LLMError("NETWORK_ERROR", <<"Network error">>,
           "Unable to connect to AI service. Please check your connection and try again.",
           Some(AsError(error)), Some(503))
  ELSE IF Includes(AsError(error).message, {"blocked", "safety", "content filter", "harm"})
    THEN LLMError("CONTENT_FILTER", <<"Content filtered by safety settings">>,
           "I apologize, but I can't respond to that. Please rephrase your question.",
           Some(AsError(error)), Some(400))
  ELSE IF Includes(AsError(error).message, {"invalid", "400"})
    THEN LLMError("INVALID_REQUEST", <<"Invalid request">>,
           "I had trouble understanding your request. Could you try rephrasing?",
           Some(AsError(error)), Some(400))
  ELSE LLMError("UNKNOWN", <<"Unknown error: ">> \o AsError(error).message,
         "I'm having technical difficulties. Please try again or contact support if the problem persists.",
         Some(AsError(error)), Some(500))

\* LLMService.generateReply: the check of userMessage before the try block
EmptyUserMessage ==
  LLMError("INVALID_REQUEST", <<"User message is empty">>,
    "Please provide a message.", Undefined, Some(400))

\* a generateReply that returns response.text() as it is
GenerateReplyUntrimmed(result) ==
  IF result.kind = "reject"
    THEN [kind |-> "throw", error |-> LLMServiceHandleError(result.error)]
    ELSE [kind |-> "reply", text |-> result.text]

\* LLMService.generateReply after generateContent has settled: what the
\* promise of generateReply settles with
GenerateReplyOutcome(result) ==
  IF result.kind = "reject"
    THEN [kind |-> "throw", error |-> LLMServiceHandleError(result.error)]
  ELSE IF result.text = <<>> \/ Trim(result.text) = <<>>
    THEN [kind |-> "throw",
          error |-> LLMServiceHandleError(
            LLMError("UNKNOWN", <<"Empty response from LLM">>,
              "I apologize, but I'm having trouble generating a response. Please try again.",
              Undefined, Some(500)))]
  ELSE [kind |-> "reply", text |-> Trim(result.text)]

\* a literal piece of a template string
Lit(s) == Run(s, 1)

\* LLMService.generateReply: !userMessage || userMessage.trim() === ''
UserMessageEmpty(userMessage) == Falsy(userMessage) \/ Trim(userMessage) = <<>>

\* llm/index.ts buildSystemPrompt(): `${SYSTEM_PROMPT}\n\n${FAQ_KNOWLEDGE}`
buildSystemPrompt == <<Lit("SYSTEM_PROMPT"), Lit("\n\n"), Lit("FAQ_KNOWLEDGE")>>

\* Array.prototype.join(separator) for an array of texts
RECURSIVE Join(_, _)
Join(texts, separator) ==
  IF texts = <<>> THEN <<>>
  ELSE IF Len(texts) = 1 THEN texts[1]
  ELSE texts[1] \o separator \o Join(Tail(texts), separator)

\* `${label}: ${msg.content}`
FormatTurn(msg) ==
  <<Lit(IF msg.role = "user" THEN "Customer" ELSE "Agent"), Lit(": ")>>
    \o msg.content

\* llm/index.ts formatConversationHistory(history, maxMessages = 10);
\* maxMessages is optional
formatConversationHistory(history, maxMessages) ==
  IF Len(history) = 0
    THEN <<Lit("This is the start of the conversation.")>>
    ELSE LET n == IF maxMessages = Undefined THEN DefaultMaxHistoryMessages
                  ELSE maxMessages[1]
             recentHistory == JsSliceFrom(history, 0 - n)
         IN  <<Lit("Previous conversation:\n\n")>>
               \o Join([k \in 1..Len(recentHistory) |-> FormatTurn(recentHistory[k])],
                       <<Lit("\n\n")>>)

\* LLMService.generateReply: fullPrompt
FullPrompt(config, history, userMessage) ==
  buildSystemPrompt \o <<Lit("\n\n")>>
    \o formatConversationHistory(history, config.maxHistoryMessages)
    \o <<Lit("\n\nCustomer: ")>> \o userMessage \o <<Lit("\n\nAgent:")>>

\* LLMService.constructor: !config.apiKey || config.apiKey.trim() === ''
ApiKeyMissing(apiKey) == Falsy(apiKey) \/ Trim(apiKey) = <<>>

\* LLMService.constructor: {...DEFAULT_CONFIG, ...config}; config holds
\* apiKey and, optionally, maxHistoryMessages
MergeConfig(config) ==
  [apiKey |-> config.apiKey,
   maxHistoryMessages |->
     IF config.maxHistoryMessages = Undefined
       THEN Some(DefaultMaxHistoryMessages) ELSE config.maxHistoryMessages]

\* what sendMessage throws when generateReply fails after generateContent
\* has settled with result: generateAIReply's catch, then sendMessage's
ProviderFailure(result) ==
  handleError(generateAIReplyError(GenerateReplyOutcome(result).error))

\* the catch block of saveUserMessage, getConversationHistory or
\* saveAssistantMessage (step), then sendMessage's
StoreFailure(step, error) ==
  handleError(ChatError("DATABASE_ERROR",
    <<CASE step = "saveUser" -> "Failed to save user message: "
        [] step = "fetchHistory" -> "Failed to fetch conversation history: "
        [] OTHER -> "Failed to save assistant message: ">>
      \o ErrorToString(error),
    CASE step = "saveUser" -> "Failed to save your message. Please try again."
      [] step = "fetchHistory" -> "Failed to load conversation history."
      [] OTHER -> "Failed to save AI response. Please try again.",
    500, AsOriginalError(error)))

(* -------------------------- boundary adapters ------------------------- *)
\* The body of an error response: its JSON properties, a text being the
\* tuple of its fragments and a property that is not sent being Undefined.
ErrorBody(error, message, statusCode, field, details) ==
  [error |-> error, message |-> message, statusCode |-> statusCode,
   field |-> field, details |-> details]

\* errorHandler.ts: mapChatErrorToHTTPError
mapChatErrorToHTTPError(errorType) ==
  CASE errorType = "INVALID_INPUT" -> "Invalid Input"
    [] errorType = "CONVERSATION_NOT_FOUND" -> "Not Found"
    [] errorType = "AI_SERVICE_ERROR" -> "AI Service Error"
    [] errorType = "DATABASE_ERROR" -> "Server Error"
    [] errorType = "UNKNOWN_ERROR" -> "Unexpected Error"
    [] OTHER -> "Error"

\* an error that Fastify itself raises, with its statusCode
FastifyError(name, message, statusCode) ==
  [class |-> "Error", name |-> name, message |-> message,
   statusCode |-> Some(statusCode)]

\* (error as any).statusCode of an error that is neither ChatError nor LLMError
StatusCodeOf(error) ==
  IF "statusCode" \in DOMAIN error THEN error.statusCode ELSE Undefined

\* the callback of fastify.setErrorHandler: reply.code(status).send(body)
FastifyErrorHandler(error) ==
  IF error.class = "ChatError"
    THEN [status |-> error.statusCode,
          body |-> ErrorBody(Some(<<mapChatErrorToHTTPError(error.type)>>),
                     Some(<<error.userMessage>>), Some(error.statusCode),
                     Undefined, Undefined)]
  ELSE IF error.class = "LLMError"
    THEN [status |-> IF error.statusCode = Undefined THEN 500
                     ELSE error.statusCode[1],
          body |-> ErrorBody(Some(<<"AI Service Error">>),
                     Some(<<error.userMessage>>), error.statusCode,
                     Undefined, Undefined)]
  ELSE IF StatusCodeOf(error) = Some(400)
    THEN [status |-> 400,
          body |-> ErrorBody(Some(<<"Invalid Request">>),
                     Some(<<"Request validation failed. Check your input.">>),
                     Some(400), Undefined, Undefined)]
  ELSE IF TruthyNumber(StatusCodeOf(error))
    THEN [status |-> StatusCodeOf(error)[1],
          body |-> ErrorBody(Some(<<error.name>>),
                     Some(<<"An error occurred processing your request.">>),
                     StatusCodeOf(error), Undefined, Undefined)]
  ELSE [status |-> 500,
        body |-> ErrorBody(Some(<<"Internal Server Error">>),
                   Some(<<"An unexpected error occurred. Please try again later.">>),
                   Some(500), Undefined, Undefined)]

\* the catch block of the handlers of api/chat/message.ts and
\* api/chat/history.ts: res.status(status).json(body)
VercelCatch(error) ==
  IF error.class = "ChatError"
    THEN [status |-> IF error.statusCode # 0 THEN error.statusCode ELSE 500,
          body |-> ErrorBody(Some(<<error.userMessage>>), Undefined, Undefined,
                     Undefined, Some(error.message))]
    ELSE [status |-> 500,
          body |-> ErrorBody(Some(<<"Internal Server Error">>), Undefined,
                     Undefined, Undefined, Some(error.message))]

\* routes/chat.ts: the 400 of handleSendMessage / handleGetHistory
MissingField(field, message) ==
  [status |-> 400,
   body |-> ErrorBody(Some(<<"Missing required field">>), Some(<<message>>),
              Some(400), Some(<<field>>), Undefined)]

\* the body of a 200: the value the service returned
SuccessBody(outcome) ==
  IF outcome.kind = "sendMessage"
    THEN [reply |-> outcome.result.reply, sessionId |-> outcome.result.sessionId,
          timestamp |-> outcome.result.timestamp]
    ELSE [sessionId |-> outcome.result.sessionId,
          messages |-> outcome.result.messages]

\* new LLMService({apiKey: ''}): the constructor's check of the key
ApiKeyRequired ==
  LLMError("INVALID_API_KEY", <<"API key is required">>,
    "AI service is not configured. Please contact support.", Undefined, Some(500))

(* ------------------------------- inputs ------------------------------- *)
EmptyText == <<>>
BlankText == <<Run(" ", 3)>>
TooLongText == <<Run("a", MaxMessageLength + 1)>>
LongestText == <<Run("a", MaxMessageLength)>>
HelloText == <<Run(" ", 1), Run("h", 1), Run("i", 1)>>

InvalidMessages == {EmptyText, BlankText, TooLongText}

InvalidUuidString ==
  <<"i","n","v","a","l","i","d","-","u","u","i","d">>

\* a well-formed identifier the generator never yields
FakeSessionId == uuidv4(0)

SessionIds ==
  {Undefined, Some(<<>>), Some(InvalidUuidString), Some(FakeSessionId),
   Some(uuidv4(1)), Some(uuidv4(2))}

\* SendMessageRequest: a rejected message is tried without and with a
\* session id, the longest accepted one without, another one with every
\* session id
SendMessageRequests ==
  {[message |-> m, sessionId |-> s] :
     m \in InvalidMessages, s \in {Undefined, Some(uuidv4(1))}}
  \cup {[message |-> LongestText, sessionId |-> Undefined]}
  \cup {[message |-> HelloText, sessionId |-> s] : s \in SessionIds}

\* the requests of callers that share one conversation
SharedRequests ==
  {[message |-> HelloText, sessionId |-> s] : s \in {Undefined, Some(uuidv4(1))}}

Limits == {Undefined} \cup {Some(k) : k \in 0..MaxLimit}

\* GetHistoryRequest
GetHistoryRequests ==
  {[sessionId |-> s, limit |-> l] : s \in SessionIds, l \in Limits}

ReplyText == <<Run("r", 2)>>

\* what the injected ILLMService.generateReply may do
LLMOutcomes ==
  {[kind |-> "reply", text |-> ReplyText],
   [kind |-> "throw",
    error |-> LLMError("RATE_LIMIT", <<"Rate limit exceeded">>,
       "Our AI service is currently busy. Please try again in a moment.",
       Undefined, Some(429))],
   [kind |-> "throw",
    error |-> LLMError("UNKNOWN", <<"Unknown error: ", "boom">>,
       "I'm having technical difficulties.", Undefined, Undefined)],
   [kind |-> "throw",
    error |-> LLMError("TIMEOUT", <<"Request timed out">>,
       "The AI is taking too long to respond. Please try asking again.",
       Undefined, Some(408))],
   [kind |-> "throw", error |-> PlainError(<<"LLM failed">>)],
   [kind |-> "throw", error |-> PlainError(<<"Internal LLM API key: sk-123456">>)]}

\* what an ILLMService of any implementation may do: it may also resolve
\* with a blank or an empty string
InjectedOutcomes ==
  LLMOutcomes \cup {[kind |-> "reply", text |-> t] : t \in {BlankText, EmptyText}}

\* the response text of generateContent: padded, blank or empty
ProviderTexts ==
  {<<Run(" ", 1), Run("r", 2), Run("\n", 1)>>, BlankText, EmptyText}

\* what generateContent rejects with
ProviderErrors ==
  {PlainError(<<m>>) :
     m \in {"Invalid API key provided", "401 Unauthorized", "Rate limit exceeded",
            "Quota exceeded", "Request timed out", "Network connection failed",
            "Content blocked by safety filters", "Invalid request format",
            "Something unexpected happened", "Original error message"}}
  \cup {NamedError("AbortError", <<"This operation was aborted">>),
        NamedError("AbortError", <<"signal is gone">>)}

\* how the promise of generateContent settles
ProviderResults ==
  {[kind |-> "resolve", text |-> t] : t \in ProviderTexts}
  \cup {[kind |-> "reject", error |-> e] : e \in ProviderErrors}

\* the histories handed to generateReply: turns of alternating roles, and
\* one whose turns have another role
History(n) ==
  [k \in 1..n |-> [role |-> IF k % 2 = 1 THEN "user" ELSE "assistant",
                   content |-> <<Run("m", k)>>]]

Histories ==
  {History(n) : n \in 0..MaxTurns}
  \cup {[k \in 1..2 |-> [role |-> "system", content |-> <<Run("s", k)>>]]}

\* the newMessage arguments of generateReply
NewMessages == {HelloText, BlankText, EmptyText}

\* the configurations LLMService is constructed with
LLMConfigs ==
  {[apiKey |-> key, maxHistoryMessages |-> n] :
     key \in {<<Run("k", 3)>>, BlankText, EmptyText},
     n \in {Undefined, Some(0), Some(2)}}

\* what generateContent may throw besides the errors of ProviderErrors:
\* errors whose text holds patterns of two kinds, and a value that is no Error
GatewayFailures ==
  ProviderErrors
  \cup {PlainError(<<"Network timeout">>),
        PlainError(<<"Harmful content: HTTP 400">>),
        [class |-> "value", message |-> <<"429 Too Many Requests">>],
        [class |-> "value", message |-> <<"nothing">>]}

\* how the promise of generateContent settles for a caller of LLMService
GatewayResults ==
  {[kind |-> "resolve", text |-> t] : t \in ProviderTexts}
  \cup {[kind |-> "reject", error |-> e] : e \in GatewayFailures}

\* request bodies as api/chat/message.ts passes them on: parsed JSON whose
\* message is a number
UntypedRequests ==
  {[message |-> JsonNumber(k), sessionId |-> Undefined] : k \in {0, 123}}

\* the bodies of POST /chat/message that pass Fastify's parser: message
\* absent, empty, blank or given, sessionId absent or given
MessagePayloads ==
  {[message |-> m, sessionId |-> s] :
     m \in {Undefined, Some(EmptyText), Some(BlankText), Some(HelloText)},
     s \in {Undefined, Some(uuidv4(1))}}

\* the bodies of POST /chat/history that pass Fastify's parser
HistoryPayloads ==
  {[sessionId |-> s, limit |-> Undefined] :
     s \in {Undefined, Some(<<>>), Some(InvalidUuidString), Some(FakeSessionId),
            Some(uuidv4(1))}}

\* what Fastify raises before a handler runs: a body that is no object, a
\* body in a content type without a parser
FastifyErrors ==
  {FastifyError("FastifyError", <<"body must be object">>, 400),
   FastifyError("FastifyError", <<"Unsupported Media Type: text/plain">>, 415)}

\* the conversation ids a client of the store passes: every identifier the
\* generator can have handed out, and one it never yields
StoreIds == {uuidv4(k) : k \in 0..MaxStoreRows}

MessageSenders == {"user", "assistant"}

\* what a statement of the store throws when the database fails
StoreErrors ==
  {PlainError(<<"SQLITE_BUSY: database is locked">>),
   PlainError(<<"disk I/O error">>)}

Times == 0..MaxClock

\* the callers whose sendMessage invocations may overlap
Callers == {"a", "b"}

(* ------------------------------- state -------------------------------- *)
VARIABLES
  clock,          \* the last value Date.now() returned
  uuidCount,      \* how many identifiers uuid.v4() has handed out
  conversations,  \* rows of table conversations, in insertion (rowid) order
  messages,       \* rows of table messages, in insertion (rowid) order
  calls,          \* the sendMessage invocation of each caller
  response,       \* the outcome a caller is being handed
  log,            \* the invocations that have ended, in the order they ended
  client          \* the browser page: its sessionId and localStorage

vars == <<clock, uuidCount, conversations, messages, calls, response, log, client>>

NoResponse == [kind |-> "none"]

\* Chat.svelte before it is mounted: `let sessionId: string | null = null`;
\* chatSessionId is the item of localStorage (absent: Undefined)
NoPage ==
  [mounted |-> FALSE, sessionId |-> Undefined, chatSessionId |-> Undefined]

\* No invocation.  The fields from created on record what an invocation
\* did; the service does not read them.
IdleCall ==
  [pc |-> "idle", message |-> <<>>, sessionId |-> Undefined,
   conversationId |-> <<>>, history |-> <<>>, aiReply |-> <<>>,
   created |-> 0, convsBefore |-> 0, before |-> <<>>, invoked |-> 0,
   startedAt |-> 0,
   historyIds |-> <<>>,
   userMessageId |-> <<>>, assistantMessageId |-> <<>>, overlapped |-> FALSE,
   timer |-> "unset", aborted |-> FALSE]

InFlight(c) == c.pc # "idle"

\* what is remembered of an invocation that resolved a conversation
Ended(c, returned) ==
  [conversationId |-> c.conversationId, message |-> c.message,
   aiReply |-> c.aiReply, userMessageId |-> c.userMessageId,
   assistantMessageId |-> c.assistantMessageId, overlapped |-> c.overlapped,
   returned |-> returned]

\* the rejection of the promise sendMessage returned
Rejected(c, error) ==
  [kind |-> "sendMessage", call |-> c,
   result |-> [kind |-> "error", error |-> error]]

\* a result whose timestamp is the time the invocation began
ResolvedWithStartTime(c, now) ==
  [kind |-> "sendMessage", call |-> c,
   result |-> [kind |-> "ok", reply |-> c.aiReply, sessionId |-> c.conversationId,
               timestamp |-> toISOString(c.startedAt)]]

\* the value of the promise sendMessage returned
Resolved(c, now) ==
  [kind |-> "sendMessage", call |-> c,
   result |-> [kind |-> "ok", reply |-> c.aiReply, sessionId |-> c.conversationId,
               timestamp |-> toISOString(now)]]

Init ==
  /\ clock = 0
  /\ uuidCount = 0
  /\ conversations = <<>>
  /\ messages = <<>>
  /\ calls = [c \in Callers |-> IdleCall]
  /\ response = NoResponse
  /\ log = <<>>
  /\ client = NoPage

\* Date.now() returns now: the clock does not run backwards
DateNow(now) == now \in clock..Min(clock + 1, MaxClock) /\ clock' = now

\* the caller takes the outcome of its call
Deliver ==
  /\ response # NoResponse
  /\ response' = NoResponse
  /\ UNCHANGED <<clock, uuidCount, conversations, messages, calls, log>>
  /\ UNCHANGED client

\* the identifiers of the rows stored for a conversation, in insertion order
StoredIds(msgs, conversationId) ==
  LET rows == SelectSeq(msgs, LAMBDA r : r.conversation_id = conversationId)
  IN  [k \in 1..Len(rows) |-> rows[k].id]

\* every invocation in flight when another one starts has overlapped it
MarkOverlapped(cs, i) ==
  [j \in Callers |->
     IF j # i /\ InFlight(cs[j]) THEN [cs[j] EXCEPT !.overlapped = TRUE]
     ELSE cs[j]]

\* sendMessage up to its first await: validateSendMessageRequest, then
\* getOrCreateConversation (which contains no await)
Start(i, message, sessionId, now) ==
  /\ response = NoResponse
  /\ ~InFlight(calls[i])
  /\ i = "a" \/ InFlight(calls["a"])
  /\ Len(log) + Cardinality({j \in Callers : InFlight(calls[j])}) < MaxCalls
  /\ LET c0 == [calls[i] EXCEPT !.message = message, !.sessionId = sessionId,
                  !.convsBefore = Len(conversations),
                  !.startedAt = clock,
                  !.overlapped = \E j \in Callers : j # i /\ InFlight(calls[j])]
         invalid == validateSendMessageRequest(message, sessionId)
     IN  IF invalid # Undefined
           THEN /\ response' = Rejected(c0, invalid[1])
                /\ now = clock
                /\ UNCHANGED <<clock, uuidCount, conversations, calls>>
         ELSE IF TruthyString(sessionId)
           THEN /\ now = clock
                /\ UNCHANGED <<clock, uuidCount, conversations>>
                /\ IF getConversation(conversations, sessionId[1]) = <<>>
                     THEN /\ response' = Rejected(c0,
                               handleError(ChatError("CONVERSATION_NOT_FOUND",
                                 <<"Conversation not found: ">> \o sessionId[1],
                                 "Conversation not found. Starting a new conversation.",
                                 404, Undefined)))
                          /\ UNCHANGED calls
                     ELSE /\ calls' = [MarkOverlapped(calls, i) EXCEPT ![i] =
                                 [c0 EXCEPT !.pc = "saveUser",
                                            !.conversationId = sessionId[1],
                                            !.before = StoredIds(messages, sessionId[1])]]
                          /\ UNCHANGED response
         ELSE /\ DateNow(now)
              /\ uuidCount' = uuidCount + 1
              /\ conversations' =
                   InsertConversation(conversations, uuidv4(uuidCount + 1), now)
              /\ calls' = [MarkOverlapped(calls, i) EXCEPT ![i] =
                   [c0 EXCEPT !.pc = "saveUser",
                              !.conversationId = uuidv4(uuidCount + 1),
                              !.created = @ + 1]]
              /\ UNCHANGED response
  /\ UNCHANGED <<messages, log>>
  /\ UNCHANGED client

\* the invocation of caller i ends with a rejection
Fail(i, error) ==
  /\ calls' = [calls EXCEPT ![i] = IdleCall]
  /\ response' = Rejected(calls[i], handleError(error))
  /\ log' = Append(log, Ended(calls[i], FALSE))

\* saveUserMessage: saveMessage(conversationId, 'user', request.message)
SaveUser(i, now) ==
  /\ response = NoResponse
  /\ calls[i].pc = "saveUser"
  /\ IF getConversation(conversations, calls[i].conversationId) = <<>>
       THEN /\ Fail(i, ChatError("DATABASE_ERROR",
                 <<"Failed to save user message: ">>
                   \o ErrorToString(ConversationMissing(calls[i].conversationId)),
                 "Failed to save your message. Please try again.", 500,
                 Some(ConversationMissing(calls[i].conversationId))))
            /\ now = clock
            /\ UNCHANGED <<clock, uuidCount, messages>>
       ELSE /\ DateNow(now)
            /\ uuidCount' = uuidCount + 1
            /\ messages' = InsertMessage(messages, uuidv4(uuidCount + 1),
                 calls[i].conversationId, "user", calls[i].message, now)
            /\ calls' = [calls EXCEPT ![i].pc = "fetchHistory",
                                      ![i].userMessageId = uuidv4(uuidCount + 1)]
            /\ UNCHANGED <<response, log>>
  /\ UNCHANGED conversations
  /\ UNCHANGED client

\* getConversationHistory
FetchHistory(i) ==
  /\ response = NoResponse
  /\ calls[i].pc = "fetchHistory"
  /\ IF getConversation(conversations, calls[i].conversationId) = <<>>
       THEN Fail(i, ChatError("DATABASE_ERROR",
              <<"Failed to fetch conversation history: ">>
                \o ErrorToString(ConversationMissing(calls[i].conversationId)),
              "Failed to load conversation history.", 500,
              Some(ConversationMissing(calls[i].conversationId))))
       ELSE /\ \E rows \in getConversationMessages(messages, calls[i].conversationId) :
                 calls' = [calls EXCEPT ![i].pc = "generate",
                                        ![i].history = HistoryForLLM(rows),
                                        ![i].historyIds = HistoryIds(rows)]
            /\ UNCHANGED <<response, log>>
  /\ UNCHANGED <<clock, uuidCount, conversations, messages>>
  /\ UNCHANGED client

\* generateAIReply calls llmService.generateReply(history, userMessage)
InvokeLLM(i) ==
  /\ response = NoResponse
  /\ calls[i].pc = "generate"
  /\ calls' = [calls EXCEPT ![i].pc = "awaitLLM", ![i].invoked = @ + 1]
  /\ UNCHANGED <<clock, uuidCount, conversations, messages, response, log>>
  /\ UNCHANGED client

\* a generateAIReply that asks the gateway once more after a failure
LLMSettlesWithRetry(i, outcome) ==
  /\ response = NoResponse
  /\ calls[i].pc = "awaitLLM"
  /\ IF outcome.kind = "reply"
       THEN /\ calls' = [calls EXCEPT ![i].pc = "saveAssistant",
                                      ![i].aiReply = outcome.text]
            /\ UNCHANGED <<response, log>>
       ELSE IF calls[i].invoked < 2
         THEN /\ calls' = [calls EXCEPT ![i].invoked = @ + 1]
              /\ UNCHANGED <<response, log>>
         ELSE Fail(i, generateAIReplyError(outcome.error))
  /\ UNCHANGED <<clock, uuidCount, conversations, messages, client>>

\* the promise of generateReply settles
LLMSettles(i, outcome) ==
  /\ response = NoResponse
  /\ calls[i].pc = "awaitLLM"
  /\ IF outcome.kind = "reply"
       THEN /\ calls' = [calls EXCEPT ![i].pc = "saveAssistant",
                                      ![i].aiReply = outcome.text]
            /\ UNCHANGED <<response, log>>
       ELSE Fail(i, generateAIReplyError(outcome.error))
  /\ UNCHANGED <<clock, uuidCount, conversations, messages>>
  /\ UNCHANGED client

\* saveAssistantMessage: saveMessage(conversationId, 'assistant', aiReply)
SaveAssistant(i, now) ==
  /\ response = NoResponse
  /\ calls[i].pc = "saveAssistant"
  /\ IF getConversation(conversations, calls[i].conversationId) = <<>>
       THEN /\ Fail(i, ChatError("DATABASE_ERROR",
                 <<"Failed to save assistant message: ">>
                   \o ErrorToString(ConversationMissing(calls[i].conversationId)),
                 "Failed to save AI response. Please try again.", 500,
                 Some(ConversationMissing(calls[i].conversationId))))
            /\ now = clock
            /\ UNCHANGED <<clock, uuidCount, messages>>
       ELSE /\ DateNow(now)
            /\ uuidCount' = uuidCount + 1
            /\ messages' = InsertMessage(messages, uuidv4(uuidCount + 1),
                 calls[i].conversationId, "assistant", calls[i].aiReply, now)
            /\ calls' = [calls EXCEPT ![i].pc = "return",
                                      ![i].assistantMessageId = uuidv4(uuidCount + 1)]
            /\ UNCHANGED <<response, log>>
  /\ UNCHANGED conversations
  /\ UNCHANGED client

\* sendMessage returns {reply, sessionId, timestamp: new Date().toISOString()}
Return(i, now) ==
  /\ response = NoResponse
  /\ calls[i].pc = "return"
  /\ DateNow(now)
  /\ calls' = [calls EXCEPT ![i] = IdleCall]
  /\ response' = Resolved(calls[i], now)
  /\ log' = Append(log, Ended(calls[i], TRUE))
  /\ UNCHANGED <<uuidCount, conversations, messages>>
  /\ UNCHANGED client

\* a getHistory that creates the conversation it does not find
GetHistoryCreating(sessionId, limit) ==
  /\ response = NoResponse
  /\ response' = [kind |-> "getHistory",
                  request |-> [sessionId |-> sessionId, limit |-> limit],
                  result |-> [kind |-> "ok", sessionId |-> sessionId, messages |-> <<>>]]
  /\ conversations' = InsertConversation(conversations, sessionId, clock)
  /\ UNCHANGED <<clock, uuidCount, messages, calls, log, client>>

\* ChatService.getHistory (it contains no await: one atomic step)
GetHistory(sessionId, limit) ==
  /\ response = NoResponse
  /\ LET request == [sessionId |-> sessionId, limit |-> limit]
         thrown(error) == [kind |-> "getHistory", request |-> request,
                           result |-> [kind |-> "error", error |-> error]]
     IN  IF ~isValidUUID(sessionId)
           THEN response' = thrown(handleError(ChatError("INVALID_INPUT",
                  <<"Invalid session ID format">>,
                  "Invalid session ID. Please start a new conversation.", 400,
                  Undefined)))
         ELSE IF getConversation(conversations, sessionId[1]) = <<>>
           THEN response' = thrown(handleError(ChatError("CONVERSATION_NOT_FOUND",
                  <<"Conversation not found: ">> \o sessionId[1],
                  "Conversation not found. Please start a new conversation.", 404,
                  Undefined)))
         ELSE \E rows \in getConversationMessages(messages, sessionId[1]) :
                response' = [kind |-> "getHistory", request |-> request,
                  result |-> [kind |-> "ok", sessionId |-> sessionId[1],
                    messages |-> ToHistoryMessages(LimitMessages(rows, limit))]]
  /\ UNCHANGED <<clock, uuidCount, conversations, messages, calls, log>>
  /\ UNCHANGED client

\* LLMService.generateReply, called by generateAIReply, up to
\* `await this.model.generateContent(fullPrompt)`: the timer is set
GenerateReply(i) ==
  /\ response = NoResponse
  /\ calls[i].pc = "generate"
  /\ IF MessageMissing(calls[i].message)
       THEN Fail(i, generateAIReplyError(EmptyUserMessage))
       ELSE /\ calls' = [calls EXCEPT ![i].pc = "awaitLLM", ![i].invoked = @ + 1,
                                      ![i].timer = "armed"]
            /\ UNCHANGED <<response, log>>
  /\ UNCHANGED <<clock, uuidCount, conversations, messages>>
  /\ UNCHANGED client

\* the setTimeout callback of generateReply: abortController.abort().
\* generateContent was not given the controller's signal.
TimerFires(i) ==
  /\ response = NoResponse
  /\ calls[i].timer = "armed"
  /\ calls' = [calls EXCEPT ![i].timer = "fired", ![i].aborted = TRUE]
  /\ UNCHANGED <<clock, uuidCount, conversations, messages, response, log>>
  /\ UNCHANGED client

\* generateContent settles: clearTimeout, the rest of generateReply, and
\* generateAIReply
ProviderSettles(i, result) ==
  /\ response = NoResponse
  /\ calls[i].pc = "awaitLLM"
  /\ calls[i].timer # "unset"
  /\ LET outcome == GenerateReplyOutcome(result)
         cleared == [calls[i] EXCEPT
                       !.timer = IF @ = "armed" THEN "cleared" ELSE @]
     IN  IF outcome.kind = "reply"
           THEN /\ calls' = [calls EXCEPT ![i] =
                       [cleared EXCEPT !.pc = "saveAssistant",
                                       !.aiReply = outcome.text]]
                /\ UNCHANGED <<response, log>>
           ELSE /\ calls' = [calls EXCEPT ![i] = IdleCall]
                /\ response' =
                     Rejected(cleared, ProviderFailure(result))
                /\ log' = Append(log, Ended(cleared, FALSE))
  /\ UNCHANGED <<clock, uuidCount, conversations, messages>>
  /\ UNCHANGED client

\* sendMessage up to its first await when the store call of
\* getOrCreateConversation (getConversation or createConversation) throws
StartStoreFails(i, message, sessionId, error) ==
  /\ response = NoResponse
  /\ ~InFlight(calls[i])
  /\ Len(log) + Cardinality({j \in Callers : InFlight(calls[j])}) < MaxCalls
  /\ validateSendMessageRequest(message, sessionId) = Undefined
  /\ response' =
       Rejected([calls[i] EXCEPT !.message = message, !.sessionId = sessionId,
                                 !.convsBefore = Len(conversations)],
                handleError(error))
  /\ UNCHANGED <<clock, uuidCount, conversations, messages, calls, log>>
  /\ UNCHANGED client

\* saveUserMessage, getConversationHistory or saveAssistantMessage when its
\* store call throws: the catch block of each
StoreFails(i, error) ==
  /\ response = NoResponse
  /\ calls[i].pc \in {"saveUser", "fetchHistory", "saveAssistant"}
  /\ Fail(i, StoreFailure(calls[i].pc, error))
  /\ UNCHANGED <<clock, uuidCount, conversations, messages>>
  /\ UNCHANGED client

\* getHistory when getConversation or getConversationMessages throws
GetHistoryStoreFails(sessionId, limit, error) ==
  /\ response = NoResponse
  /\ isValidUUID(sessionId)
  /\ response' = [kind |-> "getHistory",
                  request |-> [sessionId |-> sessionId, limit |-> limit],
                  result |-> [kind |-> "error", error |-> handleError(error)]]
  /\ UNCHANGED <<clock, uuidCount, conversations, messages, calls, log>>
  /\ UNCHANGED client

\* an HTTP response on its way to the client; outcome is what the service
\* settled with, if it was called
HttpResponse(adapter, answer, outcome) ==
  [kind |-> "http", adapter |-> adapter, status |-> answer.status,
   body |-> answer.body, outcome |-> outcome]

\* the service was called and its outcome awaits the handler
ServiceSettled == response.kind \in {"sendMessage", "getHistory"}

\* the client takes the HTTP response
ClientReceives ==
  /\ response.kind = "http"
  /\ response' = NoResponse
  /\ UNCHANGED <<clock, uuidCount, conversations, messages, calls, log>>
  /\ UNCHANGED client

\* api/chat/message.ts and api/chat/history.ts after `await service...`:
\* res.status(200).json(...) or the catch block
VercelResponds ==
  /\ ServiceSettled
  /\ response' =
       HttpResponse("vercel",
         IF response.result.kind = "ok"
           THEN [status |-> 200, body |-> SuccessBody(response)]
           ELSE VercelCatch(response.result.error),
         response)
  /\ UNCHANGED <<clock, uuidCount, conversations, messages, calls, log>>
  /\ UNCHANGED client

\* handleSendMessage / handleGetHistory after `await getChatService()...`:
\* reply.code(200).send(response), or the error handler when it threw
FastifyResponds ==
  /\ ServiceSettled
  /\ response' =
       HttpResponse("fastify",
         IF response.result.kind = "ok"
           THEN [status |-> 200, body |-> SuccessBody(response)]
           ELSE FastifyErrorHandler(response.result.error),
         response)
  /\ UNCHANGED <<clock, uuidCount, conversations, messages, calls, log>>
  /\ UNCHANGED client

\* Fastify cannot parse or validate the body: the error handler answers
FastifyRefuses(error) ==
  /\ response = NoResponse
  /\ response' = HttpResponse("fastify", FastifyErrorHandler(error), NoResponse)
  /\ UNCHANGED <<clock, uuidCount, conversations, messages, calls, log>>
  /\ UNCHANGED client

\* getChatService() when no service exists yet and GEMINI_API_KEY is not
\* set: the constructor of LLMService throws in the handler
GatewayMissing ==
  /\ response = NoResponse
  /\ conversations = <<>> /\ log = <<>>
  /\ \A i \in Callers : ~InFlight(calls[i])
  /\ response' =
       HttpResponse("fastify", FastifyErrorHandler(ApiKeyRequired), NoResponse)
  /\ UNCHANGED <<clock, uuidCount, conversations, messages, calls, log>>
  /\ UNCHANGED client

\* POST /chat/message: the schema of the route (message is required),
\* handleSendMessage up to its await, and sendMessage up to its first await
HandleSendMessage(payload, now) ==
  IF payload.message = Undefined
    THEN /\ now = clock
         /\ FastifyRefuses(FastifyError("FastifyError",
              <<"body must have required property 'message'">>, 400))
  ELSE IF MessageMissing(payload.message[1])
    THEN /\ now = clock
         /\ response = NoResponse
         /\ response' =
              HttpResponse("fastify",
                MissingField("message",
                  "The message field is required and cannot be empty."),
                NoResponse)
         /\ UNCHANGED <<clock, uuidCount, conversations, messages, calls, log, client>>
  ELSE Start("a", payload.message[1], payload.sessionId, now)

\* POST /chat/history: the schema of the route (sessionId is required),
\* handleGetHistory up to its await, and getHistory
HandleGetHistory(payload) ==
  IF payload.sessionId = Undefined
    THEN FastifyRefuses(FastifyError("FastifyError",
           <<"body must have required property 'sessionId'">>, 400))
  ELSE IF ~TruthyString(payload.sessionId)
    THEN /\ response = NoResponse
         /\ response' =
              HttpResponse("fastify",
                MissingField("sessionId", "The sessionId field is required."),
                NoResponse)
         /\ UNCHANGED <<clock, uuidCount, conversations, messages, calls, log, client>>
  ELSE GetHistory(payload.sessionId, payload.limit)

\* the outcome of an operation of db/index.ts called with request
Returned(operation, request, value) ==
  [kind |-> operation, request |-> request,
   result |-> [kind |-> "ok", value |-> value]]

Threw(operation, request, error) ==
  [kind |-> operation, request |-> request,
   result |-> [kind |-> "error", error |-> error]]

\* db/index.ts createConversation()
CreateConversation(now) ==
  /\ response = NoResponse
  /\ uuidCount < MaxStoreRows
  /\ DateNow(now)
  /\ uuidCount' = uuidCount + 1
  /\ conversations' = InsertConversation(conversations, uuidv4(uuidCount + 1), now)
  /\ response' = Returned("createConversation", <<>>,
                    [id |-> uuidv4(uuidCount + 1), created_at |-> toISOString(now)])
  /\ log' = Append(log, [operation |-> "createConversation",
                          id |-> uuidv4(uuidCount + 1)])
  /\ UNCHANGED <<messages, calls>>
  /\ UNCHANGED client

\* db/index.ts saveMessage(conversationId, sender, text)
SaveMessage(conversationId, sender, text, now) ==
  /\ response = NoResponse
  /\ LET request == [conversationId |-> conversationId, sender |-> sender,
                     text |-> text]
     IN  IF getConversation(conversations, conversationId) = <<>>
           THEN /\ response' = Threw("saveMessage", request,
                                  ConversationMissing(conversationId))
                /\ now = clock
                /\ UNCHANGED <<clock, uuidCount, messages, log>>
           ELSE /\ uuidCount < MaxStoreRows
                /\ DateNow(now)
                /\ uuidCount' = uuidCount + 1
                /\ messages' = InsertMessage(messages, uuidv4(uuidCount + 1),
                                  conversationId, sender, text, now)
                /\ response' = Returned("saveMessage", request,
                     [id |-> uuidv4(uuidCount + 1), conversation_id |-> conversationId,
                      sender |-> sender, text |-> text,
                      created_at |-> toISOString(now)])
                /\ log' = Append(log, [operation |-> "saveMessage",
                                        id |-> uuidv4(uuidCount + 1),
                                        conversation_id |-> conversationId,
                                        sender |-> sender, text |-> text])
  /\ UNCHANGED <<conversations, calls>>
  /\ UNCHANGED client

\* db/index.ts getConversation(conversationId): the rows found, none for null
GetConversation(conversationId) ==
  /\ response = NoResponse
  /\ response' = Returned("getConversation", conversationId,
       LET found == getConversation(conversations, conversationId)
       IN  [k \in 1..Len(found) |->
              [id |-> found[k].id, created_at |-> toISOString(found[k].created_at)]])
  /\ UNCHANGED <<clock, uuidCount, conversations, messages, calls, log>>
  /\ UNCHANGED client

\* db/index.ts getConversationMessages(conversationId)
GetConversationMessages(conversationId) ==
  /\ response = NoResponse
  /\ IF getConversation(conversations, conversationId) = <<>>
       THEN response' = Threw("getConversationMessages", conversationId,
                          ConversationMissing(conversationId))
       ELSE \E rows \in getConversationMessages(messages, conversationId) :
              response' = Returned("getConversationMessages", conversationId, rows)
  /\ UNCHANGED <<clock, uuidCount, conversations, messages, calls, log>>
  /\ UNCHANGED client

\* db/index.ts getAllConversations()
GetAllConversations ==
  /\ response = NoResponse
  /\ \E rows \in getAllConversations(conversations) :
       response' = Returned("getAllConversations", <<>>, rows)
  /\ UNCHANGED <<clock, uuidCount, conversations, messages, calls, log>>
  /\ UNCHANGED client

\* db/index.ts deleteConversation(conversationId): one DELETE statement, the
\* cascade included; result.changes > 0
DeleteConversation(conversationId) ==
  /\ response = NoResponse
  /\ conversations' = DeleteConversations(conversations, conversationId)
  /\ messages' = CascadeDelete(messages, conversationId)
  /\ response' = Returned("deleteConversation", conversationId,
                    Len(conversations) - Len(conversations') > 0)
  /\ log' = IF Len(conversations) - Len(conversations') > 0
              THEN Append(log, [operation |-> "deleteConversation",
                                id |-> conversationId])
              ELSE log
  /\ UNCHANGED <<clock, uuidCount, calls>>
  /\ UNCHANGED client

\* For a caller of LLMService itself, log holds the service constructed
\* last and, after it, the generateContent calls made for the generateReply
\* call made last.
\* new LLMService(config)
NewLLMService(config) ==
  /\ response = NoResponse
  /\ ~InFlight(calls["a"])
  /\ IF ApiKeyMissing(config.apiKey)
       THEN /\ response' = Threw("LLMService", config, ApiKeyRequired)
            /\ UNCHANGED log
       ELSE /\ response' = Returned("LLMService", config, MergeConfig(config))
            /\ log' = <<[operation |-> "LLMService", config |-> MergeConfig(config)]>>
  /\ UNCHANGED <<clock, uuidCount, conversations, messages, calls>>
  /\ UNCHANGED client

\* what a generateReply call settled with: its arguments, what
\* generateContent settled with (if it was called), and the outcome
Settled(history, userMessage, provided, outcome) ==
  [kind |-> "generateReply",
   request |-> [history |-> history, userMessage |-> userMessage],
   provided |-> provided,
   result |-> IF outcome.kind = "reply"
                THEN [kind |-> "ok", value |-> outcome.text]
                ELSE [kind |-> "error", error |-> outcome.error]]

\* LLMService.generateReply(history, userMessage) of the service
\* constructed last, up to `await this.model.generateContent(fullPrompt)`
CallGenerateReply(history, userMessage) ==
  /\ response = NoResponse
  /\ log # <<>>
  /\ ~InFlight(calls["a"])
  /\ IF UserMessageEmpty(userMessage)
       THEN /\ response' = Settled(history, userMessage, [kind |-> "none"],
                              [kind |-> "throw", error |-> EmptyUserMessage])
            /\ log' = <<log[1]>>
            /\ UNCHANGED calls
       ELSE /\ calls' = [calls EXCEPT !["a"] =
                          [IdleCall EXCEPT !.pc = "generateContent",
                                           !.message = userMessage,
                                           !.history = history,
                                           !.invoked = 1,
                                           !.timer = "armed"]]
            /\ log' = <<log[1],
                        [operation |-> "generateContent",
                         prompt |-> FullPrompt(log[1].config, history, userMessage)]>>
            /\ UNCHANGED response
  /\ UNCHANGED <<clock, uuidCount, conversations, messages>>
  /\ UNCHANGED client

\* generateContent settles: clearTimeout and the rest of generateReply
GenerateContentSettles(result) ==
  /\ response = NoResponse
  /\ calls["a"].pc = "generateContent"
  /\ response' = Settled(calls["a"].history, calls["a"].message, result,
                    GenerateReplyOutcome(result))
  /\ calls' = [calls EXCEPT !["a"] = IdleCall]
  /\ UNCHANGED <<clock, uuidCount, conversations, messages, log>>
  /\ UNCHANGED client

\* Chat.svelte onMount: the session is restored from localStorage
Mount ==
  /\ ~client.mounted
  /\ client' = [client EXCEPT !.mounted = TRUE,
                              !.sessionId = IF TruthyString(client.chatSessionId)
                                              THEN client.chatSessionId
                                              ELSE Undefined]
  /\ UNCHANGED <<clock, uuidCount, conversations, messages, calls, response, log>>

\* the page is loaded anew: its variables are gone, localStorage stays
Reload ==
  /\ client.mounted
  /\ response = NoResponse
  /\ ~InFlight(calls["a"])
  /\ client' = [NoPage EXCEPT !.chatSessionId = client.chatSessionId]
  /\ UNCHANGED <<clock, uuidCount, conversations, messages, calls, response, log>>

\* initializeDatabase on a new, empty file: the store of a Vercel function
\* is /tmp/chat.db, which does not outlive the instance
FreshDatabase ==
  /\ response = NoResponse
  /\ ~InFlight(calls["a"])
  /\ conversations # <<>>
  /\ conversations' = <<>>
  /\ messages' = <<>>
  /\ UNCHANGED <<clock, uuidCount, calls, response, log, client>>

\* Chat.svelte sendMessage(text) up to its fetch, and the server's handling
\* of POST /chat/message up to its first await
BrowserSend(text, now) ==
  /\ client.mounted
  /\ Trim(text) # <<>>
  /\ ~InFlight(calls["a"])
  /\ HandleSendMessage(
       [message |-> Some(Trim(text)),
        sessionId |-> IF TruthyString(client.sessionId) THEN client.sessionId
                      ELSE Undefined], now)

\* Chat.svelte loadHistory() up to its fetch, and the server's handling of
\* POST /chat/history
BrowserLoadHistory ==
  /\ client.mounted
  /\ TruthyString(client.sessionId)
  /\ ~InFlight(calls["a"])
  /\ HandleGetHistory([sessionId |-> client.sessionId, limit |-> Undefined])

\* Chat.svelte after `await fetch(...)`: on a 200 for a message the session
\* id is kept if the page has none; on any other status nothing is kept
BrowserReceives ==
  /\ response.kind = "http"
  /\ client' =
       IF /\ response.status = 200
          /\ response.outcome.kind = "sendMessage"
          /\ ~TruthyString(client.sessionId)
         THEN [client EXCEPT !.sessionId = Some(response.body.sessionId),
                             !.chatSessionId = Some(response.body.sessionId)]
         ELSE client
  /\ response' = NoResponse
  /\ UNCHANGED <<clock, uuidCount, conversations, messages, calls, log>>

\* the steps of an invocation after its first await
Step(i) ==
  \/ \E now \in Times : SaveUser(i, now)
  \/ FetchHistory(i)
  \/ InvokeLLM(i)
  \/ \E outcome \in LLMOutcomes : LLMSettles(i, outcome)
  \/ \E now \in Times : SaveAssistant(i, now)
  \/ \E now \in Times : Return(i, now)

\* Two callers whose invocations overlap on one conversation.
Next ==
  \/ Deliver
  \/ \E i \in Callers, request \in SharedRequests, now \in Times :
       Start(i, request.message, request.sessionId, now)
  \/ \E i \in Callers : Step(i)

Spec == Init /\ [][Next]_vars

\* One caller that awaits each outcome before its next call, with every
\* request.
NextSeq ==
  \/ Deliver
  \/ \E request \in SendMessageRequests, now \in Times :
       Start("a", request.message, request.sessionId, now)
  \/ Step("a")

SpecSeq == Init /\ [][NextSeq]_vars

\* The same caller, which also reads histories between its sendMessage calls.
NextApi ==
  \/ NextSeq
  \/ /\ ~InFlight(calls["a"])
     /\ \E request \in GetHistoryRequests :
          GetHistory(request.sessionId, request.limit)

SpecApi == Init /\ [][NextApi]_vars

\* The sequential caller of a ChatService into which any implementation of
\* ILLMService was injected.
NextInjected ==
  \/ Deliver
  \/ \E request \in SendMessageRequests, now \in Times :
       Start("a", request.message, request.sessionId, now)
  \/ \E now \in Times : SaveUser("a", now)
  \/ FetchHistory("a")
  \/ InvokeLLM("a")
  \/ \E outcome \in InjectedOutcomes : LLMSettles("a", outcome)
  \/ \E now \in Times : SaveAssistant("a", now)
  \/ \E now \in Times : Return("a", now)

SpecInjected == Init /\ [][NextInjected]_vars

\* The sequential caller of SpecApi, on a store whose statements may fail,
\* passing request bodies on unchecked as well.
NextFaulty ==
  \/ NextApi
  \/ \E request \in UntypedRequests, now \in Times :
       Start("a", request.message, request.sessionId, now)
  \/ \E request \in SendMessageRequests, error \in StoreErrors :
       StartStoreFails("a", request.message, request.sessionId, error)
  \/ \E error \in StoreErrors : StoreFails("a", error)
  \/ /\ ~InFlight(calls["a"])
     /\ \E request \in GetHistoryRequests, error \in StoreErrors :
          GetHistoryStoreFails(request.sessionId, request.limit, error)

SpecFaulty == Init /\ [][NextFaulty]_vars

\* The sequential caller of a ChatService built on LLMService.
NextLLM ==
  \/ Deliver
  \/ \E request \in SharedRequests, now \in Times :
       Start("a", request.message, request.sessionId, now)
  \/ \E now \in Times : SaveUser("a", now)
  \/ FetchHistory("a")
  \/ GenerateReply("a")
  \/ TimerFires("a")
  \/ \E result \in ProviderResults : ProviderSettles("a", result)
  \/ \E now \in Times : SaveAssistant("a", now)
  \/ \E now \in Times : Return("a", now)

\* The event loop runs every callback and continuation that is ready; the
\* provider need not ever answer.
SpecLLM ==
  /\ Init
  /\ [][NextLLM]_vars
  /\ WF_vars(Deliver)
  /\ WF_vars(\E now \in Times : SaveUser("a", now))
  /\ WF_vars(FetchHistory("a"))
  /\ WF_vars(GenerateReply("a"))
  /\ WF_vars(TimerFires("a"))
  /\ WF_vars(\E now \in Times : SaveAssistant("a", now))
  /\ WF_vars(\E now \in Times : Return("a", now))

\* The sequential caller of a ChatService built on LLMService (SpecLLM
\* without its fairness), on a store whose statements may fail.
NextRaw ==
  \/ NextLLM
  \/ \E request \in SharedRequests, error \in StoreErrors :
       StartStoreFails("a", request.message, request.sessionId, error)
  \/ \E error \in StoreErrors : StoreFails("a", error)
  \/ /\ ~InFlight(calls["a"])
     /\ \E request \in GetHistoryRequests, error \in StoreErrors :
          GetHistoryStoreFails(request.sessionId, request.limit, error)

SpecRaw == Init /\ [][NextRaw]_vars

\* The service behind its boundary adapters: one client that awaits each
\* HTTP response, the adapter being the Fastify server or the Vercel
\* functions, on a store whose statements may fail.
NextHttp ==
  \/ ClientReceives
  \/ \E request \in SendMessageRequests \cup UntypedRequests, now \in Times :
       Start("a", request.message, request.sessionId, now)
  \/ Step("a")
  \/ /\ ~InFlight(calls["a"])
     /\ \E request \in GetHistoryRequests :
          GetHistory(request.sessionId, request.limit)
  \/ \E request \in SharedRequests, error \in StoreErrors :
       StartStoreFails("a", request.message, request.sessionId, error)
  \/ \E error \in StoreErrors : StoreFails("a", error)
  \/ VercelResponds
  \/ FastifyResponds

SpecHttp == Init /\ [][NextHttp]_vars

\* The Fastify server on a ChatService built on LLMService, with a store
\* whose statements may fail: one client that awaits each response.
NextFastify ==
  \/ ClientReceives
  \/ \E error \in FastifyErrors : FastifyRefuses(error)
  \/ GatewayMissing
  \/ \E payload \in MessagePayloads, now \in Times : HandleSendMessage(payload, now)
  \/ /\ ~InFlight(calls["a"])
     /\ \E payload \in HistoryPayloads : HandleGetHistory(payload)
  \/ \E now \in Times : SaveUser("a", now)
  \/ FetchHistory("a")
  \/ GenerateReply("a")
  \/ TimerFires("a")
  \/ \E result \in ProviderResults : ProviderSettles("a", result)
  \/ \E now \in Times : SaveAssistant("a", now)
  \/ \E now \in Times : Return("a", now)
  \/ \E error \in StoreErrors : StoreFails("a", error)
  \/ FastifyResponds

\* The event loop runs every callback and continuation that is ready and
\* the client reads its response; the provider need not ever answer, and
\* the store need not fail.
SpecFastify ==
  /\ Init
  /\ [][NextFastify]_vars
  /\ WF_vars(ClientReceives)
  /\ WF_vars(FastifyResponds)
  /\ WF_vars(\E now \in Times : SaveUser("a", now))
  /\ WF_vars(FetchHistory("a"))
  /\ WF_vars(GenerateReply("a"))
  /\ WF_vars(TimerFires("a"))
  /\ WF_vars(\E now \in Times : SaveAssistant("a", now))
  /\ WF_vars(\E now \in Times : Return("a", now))

\* A client of the store (db/index.ts) that calls one operation after
\* another, as db/__tests__/operations.test.ts does.
NextStore ==
  \/ Deliver
  \/ GetAllConversations
  \/ \E now \in Times : CreateConversation(now)
  \/ \E id \in StoreIds, sender \in MessageSenders, now \in Times :
       SaveMessage(id, sender, IF sender = "user" THEN HelloText ELSE ReplyText, now)
  \/ \E id \in StoreIds : GetConversation(id)
  \/ \E id \in StoreIds : GetConversationMessages(id)
  \/ \E id \in StoreIds : DeleteConversation(id)

SpecStore == Init /\ [][NextStore]_vars

\* The page of the frontend in one browser, talking to the Fastify server,
\* whose database may be replaced by an empty one.
NextBrowser ==
  \/ Mount
  \/ Reload
  \/ FreshDatabase
  \/ \E text \in {HelloText, BlankText}, now \in Times : BrowserSend(text, now)
  \/ BrowserLoadHistory
  \/ Step("a")
  \/ FastifyResponds
  \/ BrowserReceives

\* The user keeps sending, the event loops of the server and of the page
\* run what is ready, and the injected gateway answers.
SpecBrowser ==
  /\ Init
  /\ [][NextBrowser]_vars
  /\ WF_vars(Mount)
  /\ WF_vars(\E now \in Times : BrowserSend(HelloText, now))
  /\ WF_vars(Step("a"))
  /\ WF_vars(FastifyResponds)
  /\ WF_vars(BrowserReceives)

\* A caller of LLMService: it constructs services and awaits each
\* generateReply call before the next.
NextGateway ==
  \/ Deliver
  \/ \E config \in LLMConfigs : NewLLMService(config)
  \/ \E history \in Histories, userMessage \in NewMessages :
       CallGenerateReply(history, userMessage)
  \/ TimerFires("a")
  \/ \E result \in GatewayResults : GenerateContentSettles(result)

SpecGateway == Init /\ [][NextGateway]_vars

(* ------------------------------ properties ---------------------------- *)
\* the outcome being handed over is that of a sendMessage call
SendMessageReturned ==
  response.kind = "sendMessage" /\ response.result.kind = "ok"

SendMessageFailed ==
  response.kind = "sendMessage" /\ response.result.kind = "error"

\* sendMessage was rejected before its first await
RejectedAtOnce == SendMessageFailed /\ response.call.pc = "idle"

\* the store holds the user message of invocation c
UserMessageStored(c) ==
  \E k \in 1..Len(messages) :
     /\ messages[k].id = c.userMessageId
     /\ messages[k].conversation_id = c.conversationId
     /\ messages[k].sender = "user"
     /\ messages[k].text = c.message

\* the store holds the assistant message of invocation c
AssistantMessageStored(c) ==
  \E k \in 1..Len(messages) :
     /\ messages[k].id = c.assistantMessageId
     /\ messages[k].conversation_id = c.conversationId
     /\ messages[k].sender = "assistant"
     /\ messages[k].text = c.aiReply

\* where the row with identifier id was inserted
Position(id) == CHOOSE k \in 1..Len(messages) : messages[k].id = id

RowIds(rows) == [k \in 1..Len(rows) |-> rows[k].id]

\* a text that is empty, whitespace only, or longer than 10,000 characters
EmptyBlankOrTooLong(message) ==
  \/ message = <<>>
  \/ \A k \in 1..Len(message) : IsWhitespace(message[k].ch)
  \/ TextLength(message) > MaxMessageLength

\* a conversation id was supplied and is a well-formed identifier
WellFormed(sessionId) == sessionId # Undefined /\ UuidPattern(sessionId[1])

\* no stored conversation has the identifier
Unknown(sessionId) ==
  \A k \in 1..Len(conversations) : conversations[k].id # sessionId[1]

\* a step in which sendMessage is called with the request
SendMessageCalled(request) ==
  \E i \in Callers, now \in Times :
     Start(i, request.message, request.sessionId, now)

\* the call is answered with a ChatError of the type, and nothing else happens
FailsWithoutEffect(type) ==
  /\ response'.kind = "sendMessage"
  /\ response'.result.kind = "error"
  /\ response'.result.error.type = type
  /\ response'.call.invoked = 0
  /\ UNCHANGED <<uuidCount, conversations, messages, calls, log>>

(* C1: in every sendMessage invocation the user message is in the store    *)
(* when generateReply is invoked, the assistant message is in the store    *)
(* when the invocation is about to return, and a caller that receives a    *)
(* reply finds both rows stored, the user row inserted first.              *)
C1_StoredBeforeGenerateAndReturn ==
  /\ \A i \in Callers :
       /\ calls[i].invoked > 0 => UserMessageStored(calls[i])
       /\ calls[i].pc = "return" => AssistantMessageStored(calls[i])
  /\ SendMessageReturned =>
       /\ response.call.invoked = 1
       /\ UserMessageStored(response.call)
       /\ AssistantMessageStored(response.call)
       /\ Position(response.call.userMessageId)
            < Position(response.call.assistantMessageId)

\* a caller receives the reply of a call on a conversation that had messages
C1_Witness ==
  SendMessageReturned /\ Len(response.call.before) > 0

\* sendMessage ended while it awaited generateReply
LLMFailed == SendMessageFailed /\ response.call.pc = "awaitLLM"

(* C2: when generateReply fails, with a typed LLMError or with any other   *)
(* error, sendMessage ends with AI_SERVICE_ERROR, every read of the        *)
(* conversation contains the user message of the call, and the call has    *)
(* appended that message and no other.                                     *)
C2_LLMFailureKeepsUserMessage ==
  LLMFailed =>
    /\ response.result.error.type = "AI_SERVICE_ERROR"
    /\ UserMessageStored(response.call)
    /\ \A rows \in getConversationMessages(messages, response.call.conversationId) :
         \E k \in 1..Len(rows) :
            /\ rows[k].id = response.call.userMessageId
            /\ rows[k].sender = "user"
            /\ rows[k].text = response.call.message
    /\ response.call.assistantMessageId = <<>>
    /\ StoredIds(messages, response.call.conversationId)
         = response.call.before \o <<response.call.userMessageId>>

\* an untyped error ends a call on a conversation that had messages
C2_Witness ==
  /\ LLMFailed
  /\ response.result.error.userMessage = "Unable to generate a response. Please try again."
  /\ Len(response.call.before) > 0

(* C3: after a successful sendMessage, every read of the conversation      *)
(* returns two more messages than the conversation had before the call,    *)
(* and its last two messages are the user message and then the assistant   *)
(* message of the call.                                                    *)
C3_TwoMoreMessagesInOrder ==
  SendMessageReturned =>
    \A rows \in getConversationMessages(messages, response.call.conversationId) :
       /\ Len(rows) = Len(response.call.before) + 2
       /\ rows[Len(rows) - 1].id = response.call.userMessageId
       /\ rows[Len(rows) - 1].sender = "user"
       /\ rows[Len(rows)].id = response.call.assistantMessageId
       /\ rows[Len(rows)].sender = "assistant"

(* C4: every read of a conversation returns its messages in the order in   *)
(* which they were inserted, equal creation timestamps included.           *)
C4_ReadsReproduceInsertionOrder ==
  \A c \in 1..Len(conversations) :
     \A rows \in getConversationMessages(messages, conversations[c].id) :
        RowIds(rows) = StoredIds(messages, conversations[c].id)

\* the invocations that have ended on a conversation, in the order they ended
EndedOn(conversationId) ==
  SelectSeq(log, LAMBDA e : e.conversationId = conversationId)

(* C5: when n sendMessage calls, each started after the previous one       *)
(* returned, have all succeeded on a conversation, every read returns 2n   *)
(* messages: the user message and the reply of the first call, then those  *)
(* of the second, and so on.                                               *)
C5_SequentialCallsAlternate ==
  \A c \in 1..Len(conversations) :
     LET id == conversations[c].id
         ended == EndedOn(id)
     IN  (/\ \A i \in Callers : ~InFlight(calls[i])
          /\ \A j \in 1..Len(ended) : ended[j].returned /\ ~ended[j].overlapped)
         => \A rows \in getConversationMessages(messages, id) :
              /\ Len(rows) = 2 * Len(ended)
              /\ \A j \in 1..Len(ended) :
                   /\ rows[2 * j - 1].id = ended[j].userMessageId
                   /\ rows[2 * j - 1].sender = "user"
                   /\ rows[2 * j - 1].text = ended[j].message
                   /\ rows[2 * j].id = ended[j].assistantMessageId
                   /\ rows[2 * j].sender = "assistant"
                   /\ rows[2 * j].text = ended[j].aiReply

\* the stored messages of the conversation have pairwise different timestamps
DistinctTimestamps(conversationId) ==
  \A j, k \in 1..Len(messages) :
     (/\ j # k
      /\ messages[j].conversation_id = conversationId
      /\ messages[k].conversation_id = conversationId)
     => messages[j].created_at # messages[k].created_at

(* C6: the history an invocation passes to generateReply does not contain  *)
(* the invocation's own user message and consists of messages stored       *)
(* before it, whatever other invocations on the conversation do (stated    *)
(* here for conversations whose messages all have different timestamps).   *)
C6_HistoryIsStateBeforeTurn ==
  \A i \in Callers :
     (calls[i].invoked > 0 /\ DistinctTimestamps(calls[i].conversationId))
     => \A k \in 1..Len(calls[i].historyIds) :
          /\ calls[i].historyIds[k] # calls[i].userMessageId
          /\ Position(calls[i].historyIds[k]) < Position(calls[i].userMessageId)

(* C7: sendMessage with an empty, whitespace-only or over-long message     *)
(* fails with INVALID_INPUT, creates no conversation, appends no message   *)
(* and does not invoke generateReply.                                      *)
C7_InvalidMessageHasNoEffect ==
  [][\A request \in SendMessageRequests :
       (EmptyBlankOrTooLong(request.message) /\ SendMessageCalled(request))
       => FailsWithoutEffect("INVALID_INPUT")]_vars

\* an over-long message for an existing conversation has been rejected
C7_Witness ==
  /\ RejectedAtOnce
  /\ TextLength(response.call.message) > MaxMessageLength
  /\ WellFormed(response.call.sessionId)
  /\ ~Unknown(response.call.sessionId)
  /\ Len(messages) > 0

(* C8: a successful sendMessage without conversation id has created       *)
(* exactly one conversation, and returns the id of that conversation,      *)
(* which isValidUUID accepts; and no message that is non-empty after       *)
(* trimming and at most 10,000 characters long is rejected when no         *)
(* conversation id is supplied.                                            *)
C8_NewConversationOnce ==
  /\ (SendMessageReturned /\ response.call.sessionId = Undefined) =>
       /\ response.call.created = 1
       /\ Len(conversations) = response.call.convsBefore + 1
       /\ conversations[Len(conversations)].id = response.result.sessionId
       /\ \A k \in 1..response.call.convsBefore :
            conversations[k].id # response.result.sessionId
       /\ isValidUUID(Some(response.result.sessionId))
  /\ (RejectedAtOnce /\ response.call.sessionId = Undefined) =>
       EmptyBlankOrTooLong(response.call.message)

\* a message of exactly 10,000 characters has opened a second conversation
C8_Witness ==
  /\ SendMessageReturned
  /\ response.call.sessionId = Undefined
  /\ TextLength(response.call.message) = MaxMessageLength
  /\ response.call.convsBefore = 1

(* C9: sendMessage with a supplied conversation id, whatever string it is, *)
(* that is not a well-formed identifier fails with INVALID_INPUT, creates  *)
(* no conversation and appends nothing.                                    *)
C9_MalformedIdRejected ==
  [][\A request \in SendMessageRequests :
       (/\ request.sessionId # Undefined
        /\ ~WellFormed(request.sessionId)
        /\ SendMessageCalled(request))
       => FailsWithoutEffect("INVALID_INPUT")]_vars

(* C10: sendMessage and getHistory with a well-formed conversation id that *)
(* no stored conversation has create no conversation, append no message    *)
(* and do not invoke generateReply; getHistory fails with                  *)
(* CONVERSATION_NOT_FOUND and status 404, and so does sendMessage when its *)
(* message passes the validation that precedes the lookup.                 *)
C10_UnknownIdNotFound ==
  [][/\ \A request \in SendMessageRequests :
          (/\ WellFormed(request.sessionId)
           /\ Unknown(request.sessionId)
           /\ SendMessageCalled(request))
          => /\ FailsWithoutEffect(IF EmptyBlankOrTooLong(request.message)
                                     THEN "INVALID_INPUT"
                                     ELSE "CONVERSATION_NOT_FOUND")
             /\ ~EmptyBlankOrTooLong(request.message)
                  => response'.result.error.statusCode = 404
     /\ \A request \in GetHistoryRequests :
          (/\ WellFormed(request.sessionId)
           /\ Unknown(request.sessionId)
           /\ GetHistory(request.sessionId, request.limit))
          => /\ response'.kind = "getHistory"
             /\ response'.result.kind = "error"
             /\ response'.result.error.type = "CONVERSATION_NOT_FOUND"
             /\ response'.result.error.statusCode = 404
             /\ UNCHANGED <<uuidCount, conversations, messages, calls, log>>]_vars

\* sendMessage with an unknown id has failed while a conversation is stored
C10_Witness ==
  /\ RejectedAtOnce
  /\ response.result.error.type = "CONVERSATION_NOT_FOUND"
  /\ response.result.error.statusCode = 404
  /\ ~EmptyBlankOrTooLong(response.call.message)
  /\ WellFormed(response.call.sessionId)
  /\ Unknown(response.call.sessionId)
  /\ Len(messages) > 0

\* getHistory has answered with a history
HistoryReturned ==
  response.kind = "getHistory" /\ response.result.kind = "ok"

\* the last k elements of a sequence
LastOf(rows, k) == SubSeq(rows, Len(rows) - Min(k, Len(rows)) + 1, Len(rows))

(* C11: getHistory with limit k >= 0 on a conversation with n messages     *)
(* returns the last min(k, n) messages of a read of the full history, in   *)
(* the order of that read; without limit it returns the full history.      *)
C11_LimitReturnsLastK ==
  HistoryReturned =>
    \E rows \in getConversationMessages(messages, response.result.sessionId) :
       response.result.messages =
         ToHistoryMessages(IF response.request.limit = Undefined THEN rows
                           ELSE LastOf(rows, response.request.limit[1]))

(* C12: a generateReply that waits for the provider always completes, even *)
(* if the provider never answers: the sendMessage that awaits it does not  *)
(* wait for ever.                                                          *)
C12_GenerateReplyCompletes ==
  (calls["a"].pc = "awaitLLM") ~> (calls["a"].pc # "awaitLLM")

\* sendMessage or getHistory has failed
ServiceFailed ==
  response.kind \in {"sendMessage", "getHistory"} /\ response.result.kind = "error"

\* ChatErrorType
ChatErrorTypes ==
  {"INVALID_INPUT", "CONVERSATION_NOT_FOUND", "AI_SERVICE_ERROR",
   "DATABASE_ERROR", "UNKNOWN_ERROR"}

(* C13: whatever step of sendMessage or getHistory fails (validation,      *)
(* lookup or creation, an append, the history read, the model call), the   *)
(* caller gets a ChatError of one of the five kinds, never an LLMError or  *)
(* a plain Error.                                                          *)
C13_EveryFailureIsChatError ==
  ServiceFailed =>
    /\ response.result.error.class = "ChatError"
    /\ response.result.error.type \in ChatErrorTypes

(* C14: when a statement of the store throws during sendMessage or         *)
(* getHistory, whichever store call it is, the caller gets DATABASE_ERROR. *)
C14_StoreFailureIsDatabaseError ==
  (/\ ServiceFailed
   /\ response.result.error.class = "ChatError"
   /\ response.result.error.originalError # Undefined
   /\ response.result.error.originalError[1] \in StoreErrors)
  => response.result.error.type = "DATABASE_ERROR"

\* the typed errors the injected generateReply may throw
TypedFailures ==
  {outcome.error : outcome \in {o \in LLMOutcomes : o.kind = "throw"
                                                     /\ o.error.class = "LLMError"}}

(* C15: when generateReply throws a typed LLMError, sendMessage fails with *)
(* AI_SERVICE_ERROR, the userMessage of the LLMError, and its statusCode   *)
(* (429 for the rate limit, 408 for the timeout), or 500 when the LLMError *)
(* has none.                                                               *)
C15_TypedFailureIsCarriedOver ==
  [][\A error \in TypedFailures :
       LLMSettles("a", [kind |-> "throw", error |-> error]) =>
         /\ response'.kind = "sendMessage"
         /\ response'.result.kind = "error"
         /\ response'.result.error.class = "ChatError"
         /\ response'.result.error.type = "AI_SERVICE_ERROR"
         /\ response'.result.error.userMessage = error.userMessage
         /\ response'.result.error.statusCode =
              (IF error.statusCode = Undefined THEN 500 ELSE error.statusCode[1])
         /\ error.type = "RATE_LIMIT" => response'.result.error.statusCode = 429
         /\ error.type = "TIMEOUT" => response'.result.error.statusCode = 408]_vars

\* a timeout of the model has ended a call with status 408
C15_Witness ==
  /\ LLMFailed
  /\ response.result.error.statusCode = 408
  /\ response.result.error.userMessage
       = "The AI is taking too long to respond. Please try asking again."

\* the LLMError a ChatError was made from, if any: its kind
LLMKind(error) ==
  IF error.originalError # Undefined /\ error.originalError[1].class = "LLMError"
    THEN error.originalError[1].type
    ELSE "none"

\* two errors of the service fall into the same kind
SameKind(e1, e2) == e1.type = e2.type /\ LLMKind(e1) = LLMKind(e2)

RECURSIVE RawError(_)
\* the error at the end of the originalError chain
RawError(error) ==
  IF "originalError" \in DOMAIN error /\ error.originalError # Undefined
    THEN RawError(error.originalError[1])
    ELSE error

\* generateContent rejects
Rejections == {result \in ProviderResults : result.kind = "reject"}

\* the failure now handed to the caller shows the same userMessage as the
\* failure other that a different raw text makes of the same step, if both
\* are of one kind, and keeps the raw error
SameUserMessage(other, raw) ==
  /\ response'.result.kind = "error"
  /\ SameKind(response'.result.error, other)
       => response'.result.error.userMessage = other.userMessage
  /\ RawError(response'.result.error) = raw

(* C16: the userMessage of a failure does not depend on the raw text of    *)
(* what the provider or the store threw: whenever a step fails, the same   *)
(* step failing with any other raw error of the same kind yields the same  *)
(* userMessage, and the error handed to the caller still holds the raw     *)
(* error it was made from.                                                 *)
C16_UserMessageIndependentOfRawText ==
  [][/\ \A r1 \in Rejections, r2 \in Rejections :
          ProviderSettles("a", r1) => SameUserMessage(ProviderFailure(r2), r1.error)
     /\ \A e1 \in StoreErrors, e2 \in StoreErrors :
          /\ StoreFails("a", e1)
               => SameUserMessage(StoreFailure(calls["a"].pc, e2), e1)
          /\ \A request \in SharedRequests :
               StartStoreFails("a", request.message, request.sessionId, e1)
                 => SameUserMessage(handleError(e2), e1)
          /\ \A request \in GetHistoryRequests :
               GetHistoryStoreFails(request.sessionId, request.limit, e1)
                 => SameUserMessage(handleError(e2), e1)]_vars

\* the provider's "Quota exceeded" has ended a call as a rate limit, the kind
\* "Rate limit exceeded" falls into as well
C16_Witness ==
  /\ SendMessageFailed
  /\ LLMKind(response.result.error) = "RATE_LIMIT"
  /\ RawError(response.result.error) = PlainError(<<"Quota exceeded">>)
  /\ LLMKind(ProviderFailure([kind |-> "reject",
                              error |-> PlainError(<<"Rate limit exceeded">>)]))
       = "RATE_LIMIT"

\* an adapter has answered a call of the service that threw a ChatError
ChatErrorAnswered ==
  /\ response.kind = "http"
  /\ response.outcome # NoResponse
  /\ response.outcome.result.kind = "error"
  /\ response.outcome.result.error.class = "ChatError"

(* C17: when the service throws a ChatError, the adapter (Fastify's error  *)
(* handler or a Vercel handler) answers with the error's statusCode and    *)
(* a body that shows the client the userMessage and in no property the     *)
(* technical message.                                                      *)
C17_AdaptersShowOnlyUserMessage ==
  ChatErrorAnswered =>
    LET error == response.outcome.result.error
    IN  /\ response.status = error.statusCode
        /\ Some(<<error.userMessage>>) \in {response.body.error, response.body.message}
        /\ \A property \in {"error", "message", "field", "details"} :
              response.body[property] # Some(error.message)

\* a request to the Fastify server is being handled
RequestPending == InFlight(calls["a"]) \/ ServiceSettled

\* a 200 with the value of the service, or an error object with its three
\* properties and a status of at least 400
ProperResponse ==
  IF response.status = 200
    THEN /\ response.outcome # NoResponse
         /\ response.outcome.result.kind = "ok"
         /\ response.body = SuccessBody(response.outcome)
    ELSE /\ response.status >= 400
         /\ response.body.error # Undefined
         /\ response.body.message # Undefined
         /\ response.body.statusCode = Some(response.status)

(* C18: every request to the Fastify server is answered: whatever the      *)
(* payload and whatever fails, the request ends in an HTTP response, and   *)
(* each response is a 200 with the success value or an error object        *)
(* {error, message, statusCode} with a status of at least 400.             *)
C18_EveryRequestIsAnswered ==
  /\ [](response.kind = "http" => ProperResponse)
  /\ RequestPending ~> (response.kind = "http")

\* the rows of a conversation that a sender wrote
RowsOf(conversationId, sender) ==
  SelectSeq(messages, LAMBDA r : r.conversation_id = conversationId
                                   /\ r.sender = sender)

\* the ended invocations on a conversation that ran while another one did
OverlappedOn(conversationId) ==
  SelectSeq(EndedOn(conversationId), LAMBDA e : e.overlapped)

(* C19: when the calls on a conversation have overlapped and generateReply *)
(* has succeeded for each, every one of them returns the conversation's    *)
(* id, and once they have ended the conversation holds one user message    *)
(* and one assistant message per call, each call's own two among them:     *)
(* no append is lost, however the calls interleave.                        *)
C19_ConcurrentAppendsAreKept ==
  /\ (SendMessageReturned /\ response.call.overlapped)
       => /\ response.result.sessionId = response.call.conversationId
          /\ response.call.sessionId # Undefined
               => response.result.sessionId = response.call.sessionId[1]
  /\ \A c \in 1..Len(conversations) :
       LET id == conversations[c].id
           ended == EndedOn(id)
       IN  (/\ \A i \in Callers : ~InFlight(calls[i])
            /\ \A j \in 1..Len(ended) : ended[j].aiReply # <<>>)
           => /\ \A j \in 1..Len(ended) :
                   /\ ended[j].returned
                   /\ UserMessageStored(ended[j])
                   /\ AssistantMessageStored(ended[j])
                   /\ \A k \in 1..Len(ended) :
                        j # k => /\ ended[j].userMessageId # ended[k].userMessageId
                                 /\ ended[j].assistantMessageId
                                      # ended[k].assistantMessageId
              /\ Len(RowsOf(id, "user")) = Len(ended)
              /\ Len(RowsOf(id, "assistant")) = Len(ended)
              /\ Len(StoredIds(messages, id)) = 2 * Len(ended)

\* two calls on one conversation have overlapped, both have returned, and
\* the second was given the id of the conversation
C19_Witness ==
  /\ \A i \in Callers : ~InFlight(calls[i])
  /\ SendMessageReturned
  /\ response.call.overlapped
  /\ response.call.sessionId # Undefined
  /\ Len(OverlappedOn(response.call.conversationId)) = 2
  /\ \A j \in 1..2 : OverlappedOn(response.call.conversationId)[j].returned

(* C20: a conversation driven by sendMessage calls that each start after   *)
(* the previous one has ended, whether they succeed or fail, never holds   *)
(* two consecutive messages of the same role in insertion order.           *)
C20_RolesAlternate ==
  \A c \in 1..Len(conversations) :
     LET rows == SelectSeq(messages,
                   LAMBDA r : r.conversation_id = conversations[c].id)
     IN  \A k \in 1..(Len(rows) - 1) : rows[k].sender # rows[k + 1].sender

\* the user message with this id was stored by an invocation that failed
StoredByFailedCall(id) ==
  \E j \in 1..Len(log) : ~log[j].returned /\ log[j].userMessageId = id

(* C20, amended: in insertion order a conversation driven by sequential    *)
(* sendMessage calls starts with a user message, never holds two           *)
(* consecutive assistant messages, and holds two consecutive user messages *)
(* only where the first of them was stored by a call that failed.          *)
C20_RolesAlternateUnlessFailed ==
  \A c \in 1..Len(conversations) :
     LET rows == SelectSeq(messages,
                   LAMBDA r : r.conversation_id = conversations[c].id)
     IN  /\ rows # <<>> => rows[1].sender = "user"
         /\ \A k \in 1..(Len(rows) - 1) :
              rows[k].sender = rows[k + 1].sender
                => /\ rows[k].sender = "user"
                   /\ StoredByFailedCall(rows[k].id)

\* after a failed call and a successful one a conversation holds user,
\* user, assistant
C20_Witness ==
  \E c \in 1..Len(conversations) :
     LET rows == SelectSeq(messages,
                   LAMBDA r : r.conversation_id = conversations[c].id)
     IN  /\ Len(rows) = 3
         /\ rows[1].sender = "user"
         /\ rows[2].sender = "user"
         /\ rows[3].sender = "assistant"
         /\ StoredByFailedCall(rows[1].id)

\* sendMessage on the id of a stored conversation has created no
\* conversation, and has returned that id if it returned
ExistingConversationIsKept ==
  (/\ response.kind = "sendMessage"
   /\ response.call.sessionId # Undefined
   /\ \E k \in 1..Min(response.call.convsBefore, Len(conversations)) :
        conversations[k].id = response.call.sessionId[1]
   /\ ~EmptyBlankOrTooLong(response.call.message))
  => /\ response.call.created = 0
     /\ Len(conversations) = response.call.convsBefore
     /\ response.call.conversationId = response.call.sessionId[1]
     /\ response.result.kind = "ok"
          => response.result.sessionId = response.call.sessionId[1]

\* the senders and texts of a history
Turns(history) ==
  [k \in 1..Len(history) |-> [sender |-> history[k].sender, text |-> history[k].text]]

(* C21: sendMessage with the id of a stored conversation returns that id   *)
(* and creates no conversation; and after sendMessage(m1) and then         *)
(* sendMessage(m2, C) have returned R1 and R2, getHistory(C) is            *)
(* m1, R1, m2, R2.                                                         *)
C21_ExistingConversationContinues ==
  /\ ExistingConversationIsKept
  /\ (/\ HistoryReturned
      /\ response.request.limit = Undefined
      /\ Len(EndedOn(response.result.sessionId)) = 2
      /\ \A j \in 1..2 : EndedOn(response.result.sessionId)[j].returned)
     => LET ended == EndedOn(response.result.sessionId)
        IN  Turns(response.result.messages)
              = <<[sender |-> "user", text |-> ended[1].message],
                  [sender |-> "assistant", text |-> ended[1].aiReply],
                  [sender |-> "user", text |-> ended[2].message],
                  [sender |-> "assistant", text |-> ended[2].aiReply]>>

\* the text a user or the assistant writes in the store's client
TextOf(sender) == IF sender = "user" THEN HelloText ELSE ReplyText

\* the conversation with this id is stored
Stored(conversationId) == getConversation(conversations, conversationId) # <<>>

(* C22: saveMessage on an id that no stored conversation has throws        *)
(* 'Conversation not found' and leaves the store as it was; on the id of   *)
(* a stored conversation it adds exactly one row, with that conversation   *)
(* id, sender and text, after every row stored before, and returns the     *)
(* row it stored.                                                          *)
C22_SaveMessageAppendsOrFails ==
  [][\A id \in StoreIds, sender \in MessageSenders, now \in Times :
       SaveMessage(id, sender, TextOf(sender), now) =>
         IF Stored(id)
           THEN /\ response'.result.kind = "ok"
                /\ Len(messages') = Len(messages) + 1
                /\ SubSeq(messages', 1, Len(messages)) = messages
                /\ LET row == messages'[Len(messages')]
                       value == response'.result.value
                   IN  /\ row.conversation_id = id
                       /\ row.sender = sender
                       /\ row.text = TextOf(sender)
                       /\ \A k \in 1..Len(messages) : messages[k].id # row.id
                       /\ value.id = row.id
                       /\ value.conversation_id = id
                       /\ value.sender = sender
                       /\ value.text = TextOf(sender)
                       /\ value.created_at = toISOString(row.created_at)
                /\ conversations' = conversations
           ELSE /\ response'.result.kind = "error"
                /\ response'.result.error.message
                     = <<"Conversation not found: ">> \o id
                /\ UNCHANGED <<conversations, messages, uuidCount>>]_vars

\* a second message has been stored for the second of two conversations
C22_Witness ==
  /\ response.kind = "saveMessage"
  /\ response.result.kind = "ok"
  /\ Len(conversations) = 2
  /\ response.request.conversationId = conversations[2].id
  /\ Len(RowsOf(conversations[2].id, "user")) + Len(RowsOf(conversations[2].id, "assistant")) = 2

\* the conversation with this id was created and later deleted
Deleted(conversationId) ==
  \E k \in 1..Len(log) :
     log[k].operation = "deleteConversation" /\ log[k].id = conversationId

(* C23: in every state that createConversation, saveMessage and            *)
(* deleteConversation calls lead to, the conversation_id of every stored   *)
(* message is the id of a stored conversation.                             *)
C23_ReferentialIntegrity ==
  \A k \in 1..Len(messages) : Stored(messages[k].conversation_id)

\* a conversation that held messages has been deleted while another one
\* still holds a message
C23_Witness ==
  /\ response.kind = "deleteConversation"
  /\ response.result.value
  /\ \E k \in 1..Len(log) :
        /\ log[k].operation = "saveMessage"
        /\ log[k].conversation_id = response.request
  /\ Len(messages) > 0

(* C24: deleteConversation(id) removes the conversation and all of its     *)
(* messages in one step and returns true exactly when the conversation     *)
(* was stored; other conversations and their messages stay as they were;   *)
(* afterwards getConversation(id) returns null, getConversationMessages(id) *)
(* throws 'Conversation not found' and deleteConversation(id) returns false. *)
C24_DeleteIsAtomicAndReported ==
  [][\A id \in StoreIds :
       /\ (response'.kind = "deleteConversation" /\ response'.request = id) =>
            /\ DeleteConversation(id)
            /\ response'.result.value = Stored(id)
            /\ \A k \in 1..Len(conversations') : conversations'[k].id # id
            /\ \A k \in 1..Len(messages') : messages'[k].conversation_id # id
            /\ conversations' = SelectSeq(conversations, LAMBDA r : r.id # id)
            /\ messages' = SelectSeq(messages, LAMBDA r : r.conversation_id # id)
            /\ Deleted(id) => response'.result.value = FALSE
       /\ (/\ Deleted(id)
           /\ response'.kind = "getConversation"
           /\ response'.request = id) => response'.result.value = <<>>
       /\ (/\ Deleted(id)
           /\ response'.kind = "getConversationMessages"
           /\ response'.request = id) =>
            /\ response'.result.kind = "error"
            /\ response'.result.error.message = <<"Conversation not found: ">> \o id]_vars

\* a conversation with messages was deleted, and deleting it again has
\* returned false while another conversation holds a message
C24_Witness ==
  /\ response.kind = "deleteConversation"
  /\ ~response.result.value
  /\ Deleted(response.request)
  /\ \E k \in 1..Len(log) :
        /\ log[k].operation = "saveMessage"
        /\ log[k].conversation_id = response.request
  /\ Len(messages) > 0

\* the saveMessage calls that stored a message with this conversation id
Appended(conversationId) ==
  {k \in 1..Len(log) : /\ log[k].operation = "saveMessage"
                       /\ log[k].conversation_id = conversationId}

(* C25: getConversationMessages(c) on a stored conversation returns one    *)
(* row for each message appended with conversation id c, with the id,      *)
(* sender and text it was appended with, and no other row (so none for a   *)
(* conversation without appends); on an id that no stored conversation has *)
(* it throws 'Conversation not found'.                                     *)
C25_MessagesOfTheConversationOnly ==
  response.kind = "getConversationMessages" =>
    LET c == response.request
    IN  IF Stored(c)
          THEN /\ response.result.kind = "ok"
               /\ Len(response.result.value) = Cardinality(Appended(c))
               /\ \A j \in 1..Len(response.result.value) :
                     response.result.value[j].conversation_id = c
               /\ \A k \in Appended(c) :
                     \E j \in 1..Len(response.result.value) :
                        /\ response.result.value[j].id = log[k].id
                        /\ response.result.value[j].sender = log[k].sender
                        /\ response.result.value[j].text = log[k].text
          ELSE /\ response.result.kind = "error"
               /\ response.result.error.message = <<"Conversation not found: ">> \o c

\* the messages of one conversation were read while another conversation
\* holds a message too
C25_Witness ==
  /\ response.kind = "getConversationMessages"
  /\ response.result.kind = "ok"
  /\ Len(response.result.value) > 0
  /\ Len(messages) > Len(response.result.value)

\* how often generateContent was called for the generateReply call made last
ProviderInvocations ==
  Cardinality({k \in 1..Len(log) : log[k].operation = "generateContent"})

\* a generateReply call has settled
GenerateReplySettled == response.kind = "generateReply"

(* C26: a generateReply call whose newMessage is empty or blank fails with *)
(* an LLMError of type INVALID_REQUEST and generateContent is not called;  *)
(* for every other call generateContent is called exactly once, whether it *)
(* is still awaited or has resolved or rejected.                           *)
C26_ProviderInvokedOnceOrNever ==
  /\ calls["a"].pc = "generateContent" => ProviderInvocations = 1
  /\ GenerateReplySettled =>
       IF response.request.userMessage \in {EmptyText, BlankText}
         THEN /\ response.result.kind = "error"
              /\ response.result.error.class = "LLMError"
              /\ response.result.error.type = "INVALID_REQUEST"
              /\ response.provided.kind = "none"
              /\ ProviderInvocations = 0
         ELSE /\ response.provided.kind # "none"
              /\ ProviderInvocations = 1

\* generateReply has failed on a rejection of generateContent
C26_Witness ==
  /\ GenerateReplySettled
  /\ response.provided.kind = "reject"
  /\ response.result.kind = "error"
  /\ ProviderInvocations = 1

\* every character of the text is white space
AllWhitespace(t) == \A k \in 1..Len(t) : IsWhitespace(t[k].ch) \/ t[k].n = 0

(* C27: when generateContent resolves with a text that is empty or all     *)
(* white space, generateReply fails with an LLMError of type UNKNOWN whose *)
(* user message is the 'trouble generating a response' one; every string   *)
(* generateReply returns is non-empty, starts and ends with a character    *)
(* that is no white space, and is the provider's text trimmed.             *)
C27_EmptyReplyIsAFailure ==
  /\ (GenerateReplySettled /\ response.provided.kind = "resolve") =>
       IF AllWhitespace(response.provided.text)
         THEN /\ response.result.kind = "error"
              /\ response.result.error.class = "LLMError"
              /\ response.result.error.type = "UNKNOWN"
              /\ response.result.error.userMessage =
                   "I apologize, but I'm having trouble generating a response. Please try again."
         ELSE /\ response.result.kind = "ok"
              /\ response.result.value = Trim(response.provided.text)
  /\ (GenerateReplySettled /\ response.result.kind = "ok") =>
       /\ response.provided.kind = "resolve"
       /\ response.result.value # <<>>
       /\ ~IsWhitespace(response.result.value[1].ch)
       /\ ~IsWhitespace(response.result.value[Len(response.result.value)].ch)

\* generateContent has resolved with a padded text and generateReply has
\* returned it without the padding
C27_Witness ==
  /\ GenerateReplySettled
  /\ response.provided.kind = "resolve"
  /\ response.provided.text = <<Run(" ", 1), Run("r", 2), Run("\n", 1)>>
  /\ response.result.kind = "ok"
  /\ response.result.value = <<Run("r", 2)>>

\* the kinds of LLMError in the order handleError tries them, with the
\* status code and the user message of each
LLMErrorKinds ==
  <<[type |-> "INVALID_API_KEY", statusCode |-> 401,
     userMessage |-> "AI service is unavailable. Please contact support.",
     patterns |-> {"api key", "invalid_api_key", "authentication", "unauthorized", "401"}],
    [type |-> "RATE_LIMIT", statusCode |-> 429,
     userMessage |-> "Our AI service is currently busy. Please try again in a moment.",
     patterns |-> {"rate limit", "quota", "429", "too many requests"}],
    [type |-> "TIMEOUT", statusCode |-> 408,
     userMessage |-> "The AI is taking too long to respond. Please try asking again.",
     patterns |-> {"timeout", "timed out", "aborted"}],
    [type |-> "NETWORK_ERROR", statusCode |-> 503,
     userMessage |-> "Unable to connect to AI service. Please check your connection and try again.",
     patterns |-> {"network", "econnrefused", "enotfound", "fetch failed"}],
    [type |-> "CONTENT_FILTER", statusCode |-> 400,
     userMessage |-> "I apologize, but I can't respond to that. Please rephrase your question.",
     patterns |-> {"blocked", "safety", "content filter", "harm"}],
    [type |-> "INVALID_REQUEST", statusCode |-> 400,
     userMessage |-> "I had trouble understanding your request. Could you try rephrasing?",
     patterns |-> {"invalid", "400"}],
    [type |-> "UNKNOWN", statusCode |-> 500,
     userMessage |-> "I'm having technical difficulties. Please try again or contact support if the problem persists.",
     patterns |-> {}]>>

\* the failure shows a sign of the k-th kind; every failure counts as UNKNOWN
ShowsKind(failure, k) ==
  \/ k = Len(LLMErrorKinds)
  \/ \E j \in 1..Len(failure.message) :
        PatternsIn(failure.message[j]) \cap LLMErrorKinds[k].patterns # {}
  \/ LLMErrorKinds[k].type = "TIMEOUT" /\ failure.class = "Error"
                                       /\ failure.name = "AbortError"

\* the first kind in handleError's order that the failure shows a sign of
FirstKind(failure) ==
  LLMErrorKinds[CHOOSE k \in 1..Len(LLMErrorKinds) :
                  /\ ShowsKind(failure, k)
                  /\ \A j \in 1..(k - 1) : ~ShowsKind(failure, j)]

(* C28: whatever generateContent rejects with, generateReply fails with an *)
(* LLMError whose type is the first of INVALID_API_KEY, RATE_LIMIT,        *)
(* TIMEOUT, NETWORK_ERROR, CONTENT_FILTER, INVALID_REQUEST that the        *)
(* failure's text (or name) shows a sign of, UNKNOWN when it shows none,   *)
(* with the status code 401, 429, 408, 503, 400, 400, 500 and the user     *)
(* message of that type; a text with 'api key' and 'invalid' gives         *)
(* INVALID_API_KEY; the LLMError thrown for an empty response passes       *)
(* through handleError as it is.                                           *)
C28_FirstMatchingKindWins ==
  /\ (GenerateReplySettled /\ response.provided.kind = "reject") =>
       /\ response.result.kind = "error"
       /\ response.result.error.class = "LLMError"
       /\ response.result.error.type = FirstKind(response.provided.error).type
       /\ response.result.error.statusCode =
            Some(FirstKind(response.provided.error).statusCode)
       /\ response.result.error.userMessage =
            FirstKind(response.provided.error).userMessage
       /\ response.provided.error.message = <<"Invalid API key provided">>
            => response.result.error.type = "INVALID_API_KEY"
  /\ (/\ GenerateReplySettled
      /\ response.provided.kind = "resolve"
      /\ response.result.kind = "error") =>
       response.result.error =
         LLMError("UNKNOWN", <<"Empty response from LLM">>,
           "I apologize, but I'm having trouble generating a response. Please try again.",
           Undefined, Some(500))

\* a rejection whose text shows signs of two kinds was classified as the
\* earlier one
C28_Witness ==
  /\ GenerateReplySettled
  /\ response.provided.kind = "reject"
  /\ response.provided.error.message = <<"Network timeout">>
  /\ ShowsKind(response.provided.error, 4)
  /\ response.result.error.type = "TIMEOUT"
  /\ response.result.error.statusCode = Some(408)

\* an HTTP request was answered with the error that the constructor of
\* LLMService throws for a missing key
AnsweredApiKeyRequired ==
  /\ response.kind = "http"
  /\ response.status = 500
  /\ response.body.error = Some(<<"AI Service Error">>)
  /\ response.body.message = Some(<<ApiKeyRequired.userMessage>>)

RECURSIVE Rendered(_, _)
Rendered(history, k) ==
  IF k > Len(history) THEN <<>>
  ELSE <<Lit(IF history[k].role = "user" THEN "Customer" ELSE "Agent"),
         Lit(": ")>> \o history[k].content
       \o (IF k < Len(history) THEN <<Lit("\n\n")>> ELSE <<>>)
       \o Rendered(history, k + 1)

\* the block of the last min(N, length) turns
LastTurns(history, N) ==
  IF history = <<>> THEN <<Lit("This is the start of the conversation.")>>
  ELSE <<Lit("Previous conversation:\n\n")>>
         \o Rendered(history, Len(history) - Min(N, Len(history)) + 1)

\* the prompt holds the block of the last min(N, length) turns
PromptHoldsLastTurns ==
  log[2].prompt =
    buildSystemPrompt \o <<Lit("\n\n")>>
      \o LastTurns(calls["a"].history, log[1].config.maxHistoryMessages[1])
      \o <<Lit("\n\nCustomer: ")>> \o calls["a"].message \o <<Lit("\n\nAgent:")>>

(* C30: for every history and every configured bound N (10 when none is    *)
(* configured) the block of the prompt that generateReply hands to the     *)
(* provider holds exactly the last min(N, length) turns of the history, in *)
(* their order, each as '<RoleLabel>: <content>' with 'Customer' for role  *)
(* user and 'Agent' otherwise, separated by a blank line; for the empty    *)
(* history it is the start-of-conversation marker.                         *)
C30_PromptHoldsLastTurns ==
  calls["a"].pc = "generateContent" => PromptHoldsLastTurns

\* the stored row with this id
RowWithId(id) == CHOOSE r \in {messages[k] : k \in 1..Len(messages)} : r.id = id

(* C31: the timestamp of a sendMessage result is the time of the return:   *)
(* it is the clock's value when the call returns, it is not earlier than   *)
(* the time the call began, and it is not earlier than the created_at of   *)
(* the user message and of the assistant message that the call stored.     *)
C31_TimestampTakenAtReturn ==
  SendMessageReturned =>
    /\ response.result.timestamp = toISOString(clock)
    /\ response.call.startedAt <= response.result.timestamp.iso
    /\ RowWithId(response.call.userMessageId).created_at
         <= response.result.timestamp.iso
    /\ RowWithId(response.call.assistantMessageId).created_at
         <= response.result.timestamp.iso

\* a call has returned with a timestamp later than the time it began and
\* later than the created_at of its user message
C31_Witness ==
  /\ SendMessageReturned
  /\ response.call.startedAt < response.result.timestamp.iso
  /\ RowWithId(response.call.userMessageId).created_at
       < response.result.timestamp.iso

\* the stored rows of a sender all have a text that is non-empty after trimming
TextsNonEmpty(sender) ==
  \A k \in 1..Len(messages) :
     messages[k].sender = sender => Trim(messages[k].text) # <<>>

(* C32: whatever the injected ILLMService does, every message stored       *)
(* through sendMessage has the sender 'user' or 'assistant' and a text     *)
(* that is non-empty after trimming.                                       *)
C32_StoredMessagesAreWellFormed ==
  /\ \A k \in 1..Len(messages) : messages[k].sender \in {"user", "assistant"}
  /\ TextsNonEmpty("user")
  /\ TextsNonEmpty("assistant")

\* the ids of rows, last row first
IdsNewestFirst(rows) == [k \in 1..Len(rows) |-> rows[Len(rows) + 1 - k].id]

\* getAllConversations has returned
AllConversationsReturned == response.kind = "getAllConversations"

\* the result holds every stored conversation exactly once
EveryConversationOnce ==
  /\ Len(response.result.value) = Len(conversations)
  /\ \A k \in 1..Len(conversations) :
        \E j \in 1..Len(response.result.value) :
           /\ response.result.value[j].id = conversations[k].id
           /\ response.result.value[j].created_at
                = toISOString(conversations[k].created_at)

(* C33: getAllConversations returns every stored conversation exactly     *)
(* once and in the reverse of the order of creation, also when several     *)
(* conversations have the same created_at; without conversations it        *)
(* returns the empty list.                                                 *)
C33_AllConversationsNewestFirst ==
  AllConversationsReturned =>
    /\ response.result.kind = "ok"
    /\ EveryConversationOnce
    /\ [k \in 1..Len(response.result.value) |-> response.result.value[k].id]
         = IdsNewestFirst(conversations)

\* the page holds a session id that no stored conversation has
StaleSession ==
  /\ client.mounted
  /\ TruthyString(client.sessionId)
  /\ getConversation(conversations, client.sessionId[1]) = <<>>

\* the page's send was answered with 'Conversation not found. Starting a
\* new conversation.'
ToldNewConversationStarts ==
  /\ response.kind = "http"
  /\ response.status = 404
  /\ response.body.message =
       Some(<<"Conversation not found. Starting a new conversation.">>)

(* C34: after a send with a session id that no stored conversation has was *)
(* answered with 'Conversation not found. Starting a new conversation.',   *)
(* the page eventually holds no such id any more, so that its next send    *)
(* goes without it.                                                        *)
C34_StaleSessionIsGivenUp ==
  (StaleSession /\ ToldNewConversationStarts) ~> ~StaleSession

\* the invocation got past the history read, to the call of generateReply
ReachedGateway(c) == c.pc \in {"awaitLLM", "saveAssistant", "return"}

(* C35: a sendMessage invocation calls generateReply at most once: once    *)
(* when it got past validation, conversation resolution, the user append   *)
(* and the history read, and never before; an invocation that the gateway  *)
(* failed has called it once and has ended.                                *)
C35_GatewayCalledAtMostOnce ==
  /\ \A i \in Callers :
       /\ calls[i].invoked <= 1
       /\ calls[i].invoked = 1 <=> ReachedGateway(calls[i])
  /\ response.kind = "sendMessage" =>
       /\ response.call.invoked <= 1
       /\ response.call.invoked = 1 <=> ReachedGateway(response.call)
       /\ response.call.invoked = 1 => UserMessageStored(response.call)
       /\ response.result.kind = "ok" => response.call.invoked = 1
       /\ (/\ response.result.kind = "error"
           /\ response.result.error.class = "ChatError"
           /\ response.result.error.type = "AI_SERVICE_ERROR")
          => /\ response.call.invoked = 1
             /\ response.call.pc = "awaitLLM"
             /\ ~InFlight(calls["a"])

\* an invocation has ended with the failure of its one call of the gateway
C35_Witness ==
  /\ SendMessageFailed
  /\ response.result.error.class = "ChatError"
  /\ response.result.error.type = "AI_SERVICE_ERROR"
  /\ response.call.invoked = 1
  /\ ~InFlight(calls["a"])

\* the sendMessage invocations there have been: those in flight, the one
\* whose outcome is being handed over, and those that ended
Invocations ==
  {calls[i] : i \in Callers}
  \cup (IF response.kind = "sendMessage" THEN {response.call} ELSE {})
  \cup {log[k] : k \in 1..Len(log)}

(* C36: in every state that overlapping sendMessage calls lead to, however *)
(* they interleave and whichever of them fail, a conversation holds at     *)
(* most as many assistant messages as user messages, and every assistant   *)
(* message was stored by an invocation whose user message was stored       *)
(* before it, in the same conversation.                                    *)
C36_AssistantFollowsItsUserMessage ==
  /\ \A c \in 1..Len(conversations) :
        Len(RowsOf(conversations[c].id, "assistant"))
          <= Len(RowsOf(conversations[c].id, "user"))
  /\ \A k \in 1..Len(messages) :
        messages[k].sender = "assistant" =>
          \E c \in Invocations :
             /\ c.assistantMessageId = messages[k].id
             /\ c.conversationId = messages[k].conversation_id
             /\ \E j \in 1..(k - 1) :
                   /\ messages[j].id = c.userMessageId
                   /\ messages[j].sender = "user"
                   /\ messages[j].conversation_id = messages[k].conversation_id

\* two invocations overlapped on one conversation; one has stored its
\* reply and the other has failed after storing its user message
C36_Witness ==
  /\ \E c \in 1..Len(conversations) :
        /\ Len(RowsOf(conversations[c].id, "user")) = 2
        /\ Len(RowsOf(conversations[c].id, "assistant")) = 1
  /\ \E k \in 1..Len(log) : log[k].overlapped /\ ~log[k].returned

(* C37: a getHistory call, whether it returns or fails with INVALID_INPUT, *)
(* CONVERSATION_NOT_FOUND or another error, leaves the stored              *)
(* conversations and messages as they were, hands out no identifier and    *)
(* makes no invocation call the gateway.                                   *)
C37_GetHistoryReadsOnly ==
  [][(response.kind = "none" /\ response'.kind = "getHistory")
       => UNCHANGED <<conversations, messages, uuidCount, calls, clock>>]_vars

\* a getHistory call on a store with messages has failed with an error of
\* the store
C37_Witness ==
  /\ response.kind = "getHistory"
  /\ response.result.kind = "error"
  /\ response.result.error.class = "ChatError"
  /\ response.result.error.type \notin {"INVALID_INPUT", "CONVERSATION_NOT_FOUND"}
  /\ Len(messages) >= 2

\* the id of a stored conversation was returned by a sendMessage call, or an
\* invocation still in flight is working on it
HandedOut(id) ==
  \/ \E k \in 1..Len(log) : log[k].returned /\ log[k].conversationId = id
  \/ \E i \in Callers : InFlight(calls[i]) /\ calls[i].conversationId = id

====
